---- MODULE Spec2Model ----
(***************************************************************************)
(* Conversational Generation Orchestrator of punchy-image.                 *)
(*                                                                         *)
(* Part 1: Session/Branch Engine (backend/services/conversation.py) and    *)
(*         the conversation router's handlers that drive it                *)
(*         (backend/routers/conversation.py).                              *)
(* Part 2: Generation Client (backend/services/openrouter.py).             *)
(* Part 3: the generate router's POST /generate and its cancellation       *)
(*         (backend/routers/generate.py).                                  *)
(* Part 4: the reference cache (backend/services/reference_store.py).      *)
(* Part 5: pure functions, each applied to arguments drawn from small sets: *)
(*         estimate_token_usage (backend/services/conversation.py),        *)
(*         compress_for_size_limit (backend/services/image_processor.py),  *)
(*         build_conversation_messages (backend/services/conversation.py), *)
(*         the request size limit of generate_image                        *)
(*         (backend/services/openrouter.py).                               *)
(* Part 6: the session's file under deletion and interrupted saves         *)
(*         (backend/utils/storage.py, backend/services/conversation.py).   *)
(*                                                                         *)
(* Optional values (Python's None) are encoded as sequences of length at   *)
(* most one: None is <<>>, a present value v is <<v>>.                     *)
(***************************************************************************)
EXTENDS Integers, Sequences, FiniteSets, TLC

VARIABLES
    disk,         \* the persisted session document: None or Some(document)
    session,      \* the session object of the handler that ran last: None or Some(session)
    now,          \* the wall clock (datetime.now), a counter
    uuid_ctr,     \* number of uuid4() values drawn so far
    last,         \* what the last handler was, its arguments, its result and the state it started from
    editSession,  \* the session object held by the conversation_edit request in flight
    editPre,      \* turns of the active branch when the edit request loaded the session
    editPc,       \* position of the conversation_edit request: "idle" or "generating"
    gpc,          \* position of generate_image: "idle", "check", "inflight", "sleep", "done"
    greq,         \* the arguments and configuration generate_image was called with
    attempt,      \* the loop variable of generate_image's retry loop
    cancel_event, \* whether the asyncio.Event passed as cancel_event is set
    cancel_at,    \* where generate_image was when the event was set
    backoff,      \* seconds the backoff sleep in progress is to last
    elapsed,      \* seconds the backoff sleep in progress has lasted
    calls,        \* client.post calls started
    responses,    \* what each finished client.post call gave
    sleeps,       \* seconds each finished backoff sleep lasted
    outcome,      \* None while running, else the result or the OpenRouterError raised
    active_generations, \* _active_generations: request_id -> the request whose Event it holds
    hpc,          \* position of each POST /generate request: "idle", "single", "done"
    hreq,         \* the body of each POST /generate request and what its provider would answer
    hevent,       \* whether the asyncio.Event each request created is set
    hresp,        \* the HTTP answer each request got: None while it has none
    hcancelled,   \* what the last cancel request named and was answered
    history,      \* history.json: the entries _generate_single appended, oldest first
    ref_cache,    \* _ReferenceCache._cache: the entries in the order of the OrderedDict
    ref_files,    \* references/<id>.jpg: for each id, None or the bytes of the file
    ref_recency,  \* the cached ids in the order they were last stored or hit, oldest first
    ref_last,     \* the last call on the cache, its result and the state it started from
    tok_session,  \* the session estimate_token_usage is given, each text by its length
    tok_result,   \* None, or what estimate_token_usage returned for tok_session
    cmp_image,    \* the image compress_for_size_limit is given: the length of each encoding of it
    cmp_budget,   \* max_base64_bytes compress_for_size_limit is given
    cmp_result,   \* None, or the outcome of compress_for_size_limit for cmp_image and cmp_budget
    msg_session,  \* the session build_conversation_messages is given
    msg_result,   \* None, or the list build_conversation_messages returned for msg_session
    pay_limit,    \* model_info.get("max_request_bytes") of the model generate_image is called for
    pay_payload,  \* the payload generate_image built: its bytes outside the image data, its images
    pay_result,   \* None, or what the size limit made of pay_payload: the body posted or the error
    deleted       \* the ids of the sessions DELETE /conversation/sessions/{session_id} removed

sessionVars == <<disk, session, now, uuid_ctr, last, editSession, editPre, editPc>>

genVars == <<gpc, greq, attempt, cancel_event, cancel_at, backoff, elapsed, calls, responses,
             sleeps, outcome>>

handlerVars == <<active_generations, hpc, hreq, hevent, hresp, hcancelled, history>>

cacheVars == <<ref_cache, ref_files, ref_recency, ref_last>>

tokenVars == <<tok_session, tok_result>>

compressVars == <<cmp_image, cmp_budget, cmp_result>>

messageVars == <<msg_session, msg_result>>

payloadVars == <<pay_limit, pay_payload, pay_result>>

storeVars == <<deleted>>

\* what the deletion of a session leaves alone, besides the session variables
notStoreVars == <<genVars, handlerVars, cacheVars, tokenVars, compressVars, messageVars,
                  payloadVars>>

vars == <<disk, session, now, uuid_ctr, last, editSession, editPre, editPc,
          gpc, greq, attempt, cancel_event, cancel_at, backoff, elapsed, calls, responses,
          sleeps, outcome,
          active_generations, hpc, hreq, hevent, hresp, hcancelled, history,
          ref_cache, ref_files, ref_recency, ref_last,
          tok_session, tok_result, cmp_image, cmp_budget, cmp_result,
          msg_session, msg_result, pay_limit, pay_payload, pay_result, deleted>>

\* what the handlers of the conversation router leave alone
notSessionVars == <<genVars, handlerVars, cacheVars, tokenVars, compressVars, messageVars, payloadVars,
                    storeVars>>

\* what generate_image leaves alone
notGenVars == <<sessionVars, handlerVars, cacheVars, tokenVars, compressVars, messageVars, payloadVars,
                storeVars>>

\* what the handlers of the generate router leave alone (they draw uuids)
notHandlerVars == <<disk, session, now, last, editSession, editPre, editPc, genVars, cacheVars,
                    tokenVars, compressVars, messageVars, payloadVars,
                    storeVars>>

\* what the reference cache and the reference files leave alone
notCacheVars == <<sessionVars, genVars, handlerVars, tokenVars, compressVars, messageVars, payloadVars,
                  storeVars>>

\* what estimate_token_usage and the choice of its argument leave alone
notTokenVars == <<sessionVars, genVars, handlerVars, cacheVars, compressVars, messageVars, payloadVars,
                  storeVars>>

\* what compress_for_size_limit and the choice of its arguments leave alone
notCompressVars == <<sessionVars, genVars, handlerVars, cacheVars, tokenVars, messageVars,
                     payloadVars,
                     storeVars>>

\* what build_conversation_messages and the choice of its argument leave alone
notMessageVars == <<sessionVars, genVars, handlerVars, cacheVars, tokenVars, compressVars,
                    payloadVars,
                    storeVars>>

\* what the size limit of generate_image and the choice of its payload leave alone
notPayloadVars == <<sessionVars, genVars, handlerVars, cacheVars, tokenVars, compressVars,
                    messageVars,
                    storeVars>>

----------------------------------------------------------------------------
(* Bounds of the model *)

\* handlers run in one behaviour (caps the clock)
MaxOps == 5
\* turns a branch may hold before add_turn is no longer offered
MaxTurns == 3
\* branches a session may hold before branch_from_turn is no longer offered
MaxBranches == 3
\* max_size the _ReferenceCache is constructed with (MAX_CACHE_SIZE, 20, by default)
max_size == 2
\* turns of the active and of the other branch of a session whose token usage is estimated
MaxActiveTurns == 2
MaxOtherTurns == 1
\* image parts of the payload whose size is limited
MaxImages == 3

----------------------------------------------------------------------------
(* Values *)

None == <<>>
Some(v) == <<v>>
IsNone(o) == o = <<>>
Val(o) == o[1]

\* uuid.uuid4(): the n-th value drawn; distinct draws give distinct values
uuid4(n) == "uuid-" \o ToString(n)

\* model ids a session is created with (keys of MODELS)
SessionModelIds == {"google/gemini-2.5-flash-image"}

\* the (role, prompt, text_response) combinations add_turn is called with
TurnInputs ==
    { [role |-> "user",      prompt |-> Some("make it red"), text_response |-> None,
       has_image |-> FALSE, usage |-> None],
      [role |-> "assistant", prompt |-> None,                text_response |-> Some("done"),
       has_image |-> TRUE,  usage |-> Some([total_tokens |-> 1290])] }

\* the URLs under which a stored image and its thumbnail are served
ImageUrl(image_id) ==
    IF IsNone(image_id) THEN None ELSE Some("/api/images/default/" \o Val(image_id) \o ".png")
ThumbnailUrl(image_id) ==
    IF IsNone(image_id) THEN None
    ELSE Some("/api/images/default/thumbnails/" \o Val(image_id) \o "_thumb.png")

\* keys of MODELS
MODELS ==
    { "google/gemini-2.5-flash-image", "google/gemini-3-pro-image-preview",
      "openai/gpt-5-image", "black-forest-labs/flux.2-max", "bytedance-seed/seedream-4.5" }

\* error_type values an OpenRouterError is raised with
ErrorTypes == {"auth", "credits", "rate_limit", "content_policy", "server", "timeout", "network"}

\* conversation_edit requests: whether an API key is configured, the model override
EditRequests ==
    { [api_key |-> TRUE,  model_id |-> None,                    prompt |-> "make it blue"],
      [api_key |-> FALSE, model_id |-> None,                    prompt |-> "make it blue"],
      [api_key |-> TRUE,  model_id |-> Some("acme/no-such-model"), prompt |-> "make it blue"] }

\* how the part of conversation_edit after the await can go: the step that
\* raises ("none": nothing raises), the HTTP status and error_type answered
EditOutcomes ==
    { [step |-> "generate_image", http |-> "422", error_type |-> k, text_response |-> None,
       usage |-> None]
        : k \in ErrorTypes }
    \cup
    { [step |-> "save_image", http |-> "500", error_type |-> "server", text_response |-> None,
       usage |-> None],
      [step |-> "history",    http |-> "500", error_type |-> "server", text_response |-> Some("done"),
       usage |-> Some([total_tokens |-> 1290])],
      [step |-> "none",       http |-> "200", error_type |-> "",       text_response |-> Some("done"),
       usage |-> Some([total_tokens |-> 1290])],
      [step |-> "none",       http |-> "200", error_type |-> "",       text_response |-> None,
       usage |-> None] }

\* turn indices a client may send
TurnIndices == (0 - 1) .. MaxTurns

\* a branch id no session holds
UnknownBranchId == "no-such-branch"

----------------------------------------------------------------------------
(* Data model: backend/models/conversation.py *)

ConversationTurn(turn_id, role, prompt, image_id, image_url, thumbnail_url, text_response, timestamp, usage) ==
    [ turn_id       |-> turn_id,
      role          |-> role,
      prompt        |-> prompt,
      image_id      |-> image_id,
      image_url     |-> image_url,
      thumbnail_url |-> thumbnail_url,
      text_response |-> text_response,
      timestamp     |-> timestamp,
      usage         |-> usage ]

ConversationBranch(branch_id, name, parent_branch_id, fork_turn_index, turns) ==
    [ branch_id        |-> branch_id,
      name             |-> name,
      parent_branch_id |-> parent_branch_id,
      fork_turn_index  |-> fork_turn_index,
      turns            |-> turns ]

\* model_dump(): the session as a dict of Python values, field by field
model_dump(s) ==
    [ session_id            |-> s.session_id,
      project               |-> s.project,
      model_id              |-> s.model_id,
      created_at            |-> s.created_at,
      updated_at            |-> s.updated_at,
      branches              |-> [ i \in 1..Len(s.branches) |->
                                    ConversationBranch(s.branches[i].branch_id,
                                                       s.branches[i].name,
                                                       s.branches[i].parent_branch_id,
                                                       s.branches[i].fork_turn_index,
                                                       s.branches[i].turns) ],
      active_branch_id      |-> s.active_branch_id,
      subject_locked        |-> s.subject_locked,
      subject_lock_image_id |-> s.subject_lock_image_id ]

----------------------------------------------------------------------------
(* JSON: json.dumps / json.loads (backend/utils/storage.py).  A JSON value  *)
(* is a tagged tuple: <<"null">>, <<"true">>, <<"false">>, <<"number", n>>, *)
(* <<"string", s>>, <<"array", values>>, <<"object", members>>.            *)

JsonNull == <<"null">>
JsonBool(b) == IF b THEN <<"true">> ELSE <<"false">>
JsonNumber(n) == <<"number", n>>
JsonString(s) == <<"string", s>>
JsonArray(values) == <<"array", values>>
JsonObject(members) == <<"object", members>>

\* json.dumps of a value typed str | None, int | None, dict[str, int] | None
DumpOptionalStr(o) == IF IsNone(o) THEN JsonNull ELSE JsonString(Val(o))
DumpOptionalInt(o) == IF IsNone(o) THEN JsonNull ELSE JsonNumber(Val(o))
DumpOptionalDict(o) ==
    IF IsNone(o) THEN JsonNull
    ELSE JsonObject([k \in DOMAIN Val(o) |-> JsonNumber(Val(o)[k])])

DumpTurn(t) ==
    JsonObject([ turn_id       |-> JsonString(t.turn_id),
                 role          |-> JsonString(t.role),
                 prompt        |-> DumpOptionalStr(t.prompt),
                 image_id      |-> DumpOptionalStr(t.image_id),
                 image_url     |-> DumpOptionalStr(t.image_url),
                 thumbnail_url |-> DumpOptionalStr(t.thumbnail_url),
                 text_response |-> DumpOptionalStr(t.text_response),
                 timestamp     |-> JsonString(t.timestamp),
                 usage         |-> DumpOptionalDict(t.usage) ])

DumpBranch(b) ==
    JsonObject([ branch_id        |-> JsonString(b.branch_id),
                 name             |-> JsonString(b.name),
                 parent_branch_id |-> DumpOptionalStr(b.parent_branch_id),
                 fork_turn_index  |-> DumpOptionalInt(b.fork_turn_index),
                 turns            |-> JsonArray([i \in 1..Len(b.turns) |-> DumpTurn(b.turns[i])]) ])

\* json.dumps(data, indent=2, default=str) of a dumped session
json_dumps(data) ==
    JsonObject([ session_id            |-> JsonString(data.session_id),
                 project               |-> JsonString(data.project),
                 model_id              |-> JsonString(data.model_id),
                 created_at            |-> JsonString(data.created_at),
                 updated_at            |-> JsonString(data.updated_at),
                 branches              |-> JsonArray([i \in 1..Len(data.branches) |->
                                                        DumpBranch(data.branches[i])]),
                 active_branch_id      |-> JsonString(data.active_branch_id),
                 subject_locked        |-> JsonBool(data.subject_locked),
                 subject_lock_image_id |-> DumpOptionalStr(data.subject_lock_image_id) ])

\* what validation makes of a parsed JSON value for a field typed
\* str | None, int | None, dict[str, Any] | None, bool
LoadOptionalStr(j) == IF j[1] = "null" THEN None ELSE Some(j[2])
LoadOptionalInt(j) == IF j[1] = "null" THEN None ELSE Some(j[2])
LoadOptionalDict(j) ==
    IF j[1] = "null" THEN None ELSE Some([k \in DOMAIN j[2] |-> j[2][k][2]])
LoadBool(j) == j[1] = "true"

\* ConversationTurn(**data)
LoadTurn(j) ==
    ConversationTurn(j[2].turn_id[2], j[2].role[2], LoadOptionalStr(j[2].prompt),
                     LoadOptionalStr(j[2].image_id), LoadOptionalStr(j[2].image_url),
                     LoadOptionalStr(j[2].thumbnail_url), LoadOptionalStr(j[2].text_response),
                     j[2].timestamp[2], LoadOptionalDict(j[2].usage))

LoadBranch_falsy_index(j) ==
    ConversationBranch(j[2].branch_id[2], j[2].name[2], LoadOptionalStr(j[2].parent_branch_id),
                       IF j[2].fork_turn_index[1] = "null" \/ j[2].fork_turn_index[2] = 0
                       THEN None ELSE Some(j[2].fork_turn_index[2]),
                       [i \in 1..Len(j[2].turns[2]) |-> LoadTurn(j[2].turns[2][i])])

\* ConversationBranch(**data)
LoadBranch(j) ==
    ConversationBranch(j[2].branch_id[2], j[2].name[2], LoadOptionalStr(j[2].parent_branch_id),
                       LoadOptionalInt(j[2].fork_turn_index),
                       [i \in 1..Len(j[2].turns[2]) |-> LoadTurn(j[2].turns[2][i])])

\* ConversationSession(**data) of a parsed document
ConversationSession(j) ==
    [ session_id            |-> j[2].session_id[2],
      project               |-> j[2].project[2],
      model_id              |-> j[2].model_id[2],
      created_at            |-> j[2].created_at[2],
      updated_at            |-> j[2].updated_at[2],
      branches              |-> [i \in 1..Len(j[2].branches[2]) |->
                                    LoadBranch(j[2].branches[2][i])],
      active_branch_id      |-> j[2].active_branch_id[2],
      subject_locked        |-> LoadBool(j[2].subject_locked),
      subject_lock_image_id |-> LoadOptionalStr(j[2].subject_lock_image_id) ]

----------------------------------------------------------------------------
(* Persistence: save_session / load_session *)

\* datetime.now(timezone.utc).isoformat(): the instant t as a string
isoformat(t) == "2026-01-01T00:00:0" \o ToString(t) \o "+00:00"

\* atomic_write_json(path, data): the text the file holds afterwards
atomic_write_json(data) == json_dumps(data)

\* what save_session leaves in the session's file
Document(s) == Some(atomic_write_json(model_dump(s)))

\* read_json(path): {} (here None) when the file does not exist or its text
\* does not parse (json.JSONDecodeError), else the parsed text
read_json(file) ==
    IF IsNone(file) THEN None
    ELSE IF Val(file)[1] = "truncated" THEN None
    ELSE file

\* the text of a file whose writing stopped before its end: a prefix of the
\* text given
Truncated(text) == <<"truncated", text>>

\* writing the file at path in place (path.write_text), which leaves a
\* prefix of the text there when it does not complete
atomic_write_in_place(file, data, completed) ==
    IF completed THEN Some(data) ELSE Some(Truncated(data))

\* atomic_write(path, data): the file at path afterwards, given the file
\* before.  The text goes to <path>.tmp, os.replace then puts it at path;
\* when the call does not complete (the process ends while it writes),
\* path is as it was
atomic_write(file, data, completed) ==
    IF completed THEN Some(data) ELSE file

\* delete_session: path.unlink() when the file exists
delete_session(file) ==
    IF IsNone(file) THEN [file |-> None, ret |-> "False"] ELSE [file |-> None, ret |-> "True"]

\* save_session: stamps updated_at, then writes the whole document.
\* Gives the stamped session; the caller stores Document of it on disk.
save_session(s, t) == [s EXCEPT !.updated_at = isoformat(t)]

\* load_session: None when no document exists, else the session rebuilt from it
load_session(d) ==
    LET data == read_json(d)
    IN IF IsNone(data) THEN None ELSE Some(ConversationSession(Val(data)))

----------------------------------------------------------------------------
(* Session/Branch Engine.  Every operation is a function of the session    *)
(* (and the clock, the next uuid) giving                                   *)
(*   session : the session object after the call                           *)
(*   saved   : whether save_session was called                             *)
(*   ret     : the value returned ("True"/"False" for a bool, the id of the *)
(*             new turn or branch), or "ValueError" when it raised          *)

create_session(model_id, session_id, t) ==
    save_session(
        [ session_id            |-> session_id,
          project               |-> "default",
          model_id              |-> model_id,
          created_at            |-> isoformat(t),
          updated_at            |-> isoformat(t),
          branches              |-> << ConversationBranch("main", "main", None, None, <<>>) >>,
          active_branch_id      |-> "main",
          subject_locked        |-> FALSE,
          subject_lock_image_id |-> None ], t)

\* get_active_branch: position of the first branch whose id is the active id, 0 for None
get_active_branch(s) ==
    LET hits == { i \in 1..Len(s.branches) : s.branches[i].branch_id = s.active_branch_id }
    IN  IF hits = {} THEN 0 ELSE CHOOSE i \in hits : \A j \in hits : i <= j

ActiveTurns(s) ==
    IF get_active_branch(s) = 0 THEN <<>> ELSE s.branches[get_active_branch(s)].turns

\* add_turn with the bug "the turn is appended to the active branch and to its parent"
add_turn_into_parent(s, role, prompt, image_id, image_url, thumbnail_url, text_response, usage, turn_id, t) ==
    LET b == get_active_branch(s) IN
    IF b = 0
    THEN [session |-> s, saved |-> FALSE, ret |-> "ValueError"]
    ELSE [session |-> save_session(
                        [s EXCEPT !.branches =
                            [i \in 1..Len(s.branches) |->
                                IF i = b \/ Some(s.branches[i].branch_id) = s.branches[b].parent_branch_id
                                THEN [s.branches[i] EXCEPT !.turns =
                                        Append(@, ConversationTurn(turn_id, role, prompt, image_id,
                                                                   image_url, thumbnail_url,
                                                                   text_response, isoformat(t),
                                                                   usage))]
                                ELSE s.branches[i]]], t),
          saved   |-> TRUE,
          ret     |-> turn_id]

add_turn(s, role, prompt, image_id, image_url, thumbnail_url, text_response, usage, turn_id, t) ==
    LET b == get_active_branch(s) IN
    IF b = 0
    THEN [session |-> s, saved |-> FALSE, ret |-> "ValueError"]
    ELSE [session |-> save_session(
                        [s EXCEPT !.branches[b].turns =
                            Append(@, ConversationTurn(turn_id, role, prompt, image_id,
                                                       image_url, thumbnail_url,
                                                       text_response, isoformat(t),
                                                       usage))], t),
          saved   |-> TRUE,
          ret     |-> turn_id]

\* undo_turn with the bug "removes the oldest turn instead of the newest"
undo_turn_drops_first(s, t) ==
    LET b == get_active_branch(s) IN
    IF b = 0 \/ (b # 0 /\ s.branches[b].turns = <<>>)
    THEN [session |-> s, saved |-> FALSE, ret |-> "False"]
    ELSE [session |-> save_session(
                        [s EXCEPT !.branches[b].turns = SubSeq(@, 2, Len(@))], t),
          saved   |-> TRUE,
          ret     |-> "True"]

undo_turn(s, t) ==
    LET b == get_active_branch(s) IN
    IF b = 0 \/ (b # 0 /\ s.branches[b].turns = <<>>)
    THEN [session |-> s, saved |-> FALSE, ret |-> "False"]
    ELSE [session |-> save_session(
                        [s EXCEPT !.branches[b].turns = SubSeq(@, 1, Len(@) - 1)], t),
          saved   |-> TRUE,
          ret     |-> "True"]

\* revert_to_turn with the bug "truncates to turns[:turn_index]", dropping turn_index itself
revert_to_turn_exclusive(s, turn_index, t) ==
    LET b == get_active_branch(s) IN
    IF b = 0 \/ turn_index < 0 \/ (b # 0 /\ turn_index >= Len(s.branches[b].turns))
    THEN [session |-> s, saved |-> FALSE, ret |-> "False"]
    ELSE [session |-> save_session(
                        [s EXCEPT !.branches[b].turns = SubSeq(@, 1, turn_index)], t),
          saved   |-> TRUE,
          ret     |-> "True"]

revert_to_turn(s, turn_index, t) ==
    LET b == get_active_branch(s) IN
    IF b = 0 \/ turn_index < 0 \/ (b # 0 /\ turn_index >= Len(s.branches[b].turns))
    THEN [session |-> s, saved |-> FALSE, ret |-> "False"]
    ELSE [session |-> save_session(
                        [s EXCEPT !.branches[b].turns = SubSeq(@, 1, turn_index + 1)], t),
          saved   |-> TRUE,
          ret     |-> "True"]

\* branch_from_turn with the bug "copies turns[:turn_index]", dropping the fork turn
branch_from_turn_short_prefix(s, turn_index, new_id, t) ==
    LET b == get_active_branch(s) IN
    IF b = 0 \/ turn_index < 0 \/ (b # 0 /\ turn_index >= Len(s.branches[b].turns))
    THEN [session |-> s, saved |-> FALSE, ret |-> "ValueError"]
    ELSE LET branch_num == Len(s.branches)
             new_branch == ConversationBranch(
                               new_id,
                               "branch-" \o ToString(branch_num),
                               Some(s.branches[b].branch_id),
                               Some(turn_index),
                               SubSeq(s.branches[b].turns, 1, turn_index))
         IN [session |-> save_session(
                           [s EXCEPT !.branches = Append(@, new_branch),
                                     !.active_branch_id = new_id], t),
             saved   |-> TRUE,
             ret     |-> new_id]

\* branch_from_turn with the bug "turn_index > len(turns)" in the range check
branch_from_turn_loose_check(s, turn_index, new_id, t) ==
    LET b == get_active_branch(s) IN
    IF b = 0 \/ turn_index < 0 \/ (b # 0 /\ turn_index > Len(s.branches[b].turns))
    THEN [session |-> s, saved |-> FALSE, ret |-> "ValueError"]
    ELSE LET branch_num == Len(s.branches)
             upto       == IF turn_index + 1 <= Len(s.branches[b].turns)
                           THEN turn_index + 1 ELSE Len(s.branches[b].turns)
             new_branch == ConversationBranch(
                               new_id,
                               "branch-" \o ToString(branch_num),
                               Some(s.branches[b].branch_id),
                               Some(turn_index),
                               SubSeq(s.branches[b].turns, 1, upto))
         IN [session |-> save_session(
                           [s EXCEPT !.branches = Append(@, new_branch),
                                     !.active_branch_id = new_id], t),
             saved   |-> TRUE,
             ret     |-> new_id]

\* branch_from_turn with the bug "the new branch names itself as its parent"
branch_from_turn_own_parent(s, turn_index, new_id, t) ==
    LET b == get_active_branch(s) IN
    IF b = 0 \/ turn_index < 0 \/ (b # 0 /\ turn_index >= Len(s.branches[b].turns))
    THEN [session |-> s, saved |-> FALSE, ret |-> "ValueError"]
    ELSE LET new_branch == ConversationBranch(
                               new_id,
                               "branch-" \o ToString(Len(s.branches)),
                               Some(new_id),
                               Some(turn_index),
                               SubSeq(s.branches[b].turns, 1, turn_index + 1))
         IN [session |-> save_session(
                           [s EXCEPT !.branches = Append(@, new_branch),
                                     !.active_branch_id = new_id], t),
             saved   |-> TRUE,
             ret     |-> new_id]

branch_from_turn(s, turn_index, new_id, t) ==
    LET b == get_active_branch(s) IN
    IF b = 0 \/ turn_index < 0 \/ (b # 0 /\ turn_index >= Len(s.branches[b].turns))
    THEN [session |-> s, saved |-> FALSE, ret |-> "ValueError"]
    ELSE LET branch_num == Len(s.branches)
             new_branch == ConversationBranch(
                               new_id,
                               "branch-" \o ToString(branch_num),
                               Some(s.branches[b].branch_id),
                               Some(turn_index),
                               SubSeq(s.branches[b].turns, 1, turn_index + 1))
         IN [session |-> save_session(
                           [s EXCEPT !.branches = Append(@, new_branch),
                                     !.active_branch_id = new_id], t),
             saved   |-> TRUE,
             ret     |-> new_id]

\* switch_branch with the bug "sets the active id without looking the branch up"
switch_branch_unchecked(s, branch_id, t) ==
    [session |-> save_session([s EXCEPT !.active_branch_id = branch_id], t),
     saved   |-> TRUE,
     ret     |-> "True"]

\* switch_branch with the bug "the branch switched to starts over without turns"
switch_branch_empties_branch(s, branch_id, t) ==
    IF \E i \in 1..Len(s.branches) : s.branches[i].branch_id = branch_id
    THEN [session |-> save_session(
                        [s EXCEPT !.active_branch_id = branch_id,
                                  !.branches = [i \in 1..Len(s.branches) |->
                                                  IF s.branches[i].branch_id = branch_id
                                                  THEN [s.branches[i] EXCEPT !.turns = <<>>]
                                                  ELSE s.branches[i]]], t),
          saved   |-> TRUE,
          ret     |-> "True"]
    ELSE [session |-> s, saved |-> FALSE, ret |-> "False"]

switch_branch(s, branch_id, t) ==
    IF \E i \in 1..Len(s.branches) : s.branches[i].branch_id = branch_id
    THEN [session |-> save_session([s EXCEPT !.active_branch_id = branch_id], t),
          saved   |-> TRUE,
          ret     |-> "True"]
    ELSE [session |-> s, saved |-> FALSE, ret |-> "False"]

\* set_subject_lock with the bug "image_id is stored whatever locked is"
set_subject_lock_keeps_image_id(s, locked, image_id, t) ==
    [session |-> save_session(
                    [s EXCEPT !.subject_locked = locked,
                              !.subject_lock_image_id = image_id], t),
     saved   |-> TRUE,
     ret     |-> "True"]

set_subject_lock(s, locked, image_id, t) ==
    [session |-> save_session(
                    [s EXCEPT !.subject_locked = locked,
                              !.subject_lock_image_id = IF locked THEN image_id ELSE None], t),
     saved   |-> TRUE,
     ret     |-> "True"]

----------------------------------------------------------------------------
(* Generation Client: backend/services/openrouter.py *)

MAX_RETRIES == 3
BACKOFF_BASE == 2

\* OpenRouterError(error_type, message, retry_after)
OpenRouterError(error_type, message, retry_after) ==
    [ok |-> FALSE, error_type |-> error_type, message |-> message, retry_after |-> retry_after,
     text_response |-> None]

\* the dict generate_image returns
GenerationResult(text_response) ==
    [ok |-> TRUE, error_type |-> "", message |-> "", retry_after |-> None,
     text_response |-> text_response]

\* the error both cancellation checks raise
CancelledError == OpenRouterError("timeout", "Generation cancelled by user", None)

\* what one client.post call can give: an HTTP response (status, the
\* Retry-After header, the error message of the body, the shape of a 200
\* body) or an exception of the transport (exc)
Response(status, retry_after, error_msg, body, exc) ==
    [status |-> status, retry_after |-> retry_after, error_msg |-> error_msg,
     body |-> body, exc |-> exc]

\* str(e) of the exceptions of client.post that generate_image has no
\* except clause of their own for
UnexpectedTexts == {"Exception", "Server disconnected without sending a response."}

\* raise OpenRouterError("server", f"Unexpected error: {str(e)}")
UnexpectedFailure(text) == OpenRouterError("server", "Unexpected error: " \o text, None)

Responses ==
    { Response(st, None, "upstream error", "", "") : st \in {401, 402, 404, 413, 500, 502, 503} }
    \cup { Response(429, h, "slow down", "", "") : h \in {None, Some(10)} }
    \cup { Response(400, None, m, "", "") : m \in {"blocked by safety filter", "Unsupported Content-Type", "bad parameter"} }
    \cup { Response(200, None, "", b, "") : b \in {"images", "inline_image", "no_choices", "no_image"} }
    \cup { Response(0, None, "", "", e) : e \in {"TimeoutException", "ConnectError"} \cup UnexpectedTexts }

\* the error messages whose lower-cased text contains "safety", "content" or "policy"
PolicyWording == {"blocked by safety filter", "Unsupported Content-Type"}

\* _parse_response: the result, or the OpenRouterError it raises, for a body
\* of the given shape and the model's type ("conversational" or "image_only")
ParseResponse(body, model_type) ==
    IF body = "no_choices" THEN OpenRouterError("server", "No choices in response", None)
    ELSE IF body = "no_image" THEN OpenRouterError("server", "No image returned by model", None)
    ELSE GenerationResult(IF model_type = "conversational" THEN Some("here you go") ELSE None)

\* _handle_error_status with the bug "attempt >= MAX_RETRIES": the last attempt is retried too
HandleErrorStatus_retries_last(resp, att) ==
    LET status == resp.status IN
    IF status = 401
    THEN Some(OpenRouterError("auth", "Invalid API key. Update it in Settings.", None))
    ELSE IF status = 402
    THEN Some(OpenRouterError("credits", "Insufficient credits. Add credits at openrouter.ai.", None))
    ELSE IF status = 429
    THEN IF att >= MAX_RETRIES
         THEN Some(OpenRouterError("rate_limit", "Rate limited. Please wait and try again.",
                                   IF IsNone(resp.retry_after)
                                   THEN Some(BACKOFF_BASE ^ (att + 1)) ELSE resp.retry_after))
         ELSE None
    ELSE IF status = 400
    THEN IF resp.error_msg \in PolicyWording
         THEN Some(OpenRouterError("content_policy", "Your prompt was flagged by the model's content policy. Try adjusting your prompt.", None))
         ELSE Some(OpenRouterError("server", "Bad request: " \o resp.error_msg, None))
    ELSE IF status = 413
    THEN Some(OpenRouterError("server", "Request too large. Try a shorter prompt or smaller image.", None))
    ELSE IF status \in {500, 502, 503}
    THEN IF att >= MAX_RETRIES
         THEN Some(OpenRouterError("server", "Server error (" \o ToString(status) \o "). The model may be temporarily unavailable.", None))
         ELSE None
    ELSE Some(OpenRouterError("server", "Unexpected error (" \o ToString(status) \o "): " \o resp.error_msg, None))

\* _handle_error_status with the bug "401 returns like a 429 with attempts left"
HandleErrorStatus_retries_401(resp, att) ==
    LET status == resp.status IN
    IF status = 401
    THEN IF att >= MAX_RETRIES - 1
         THEN Some(OpenRouterError("auth", "Invalid API key. Update it in Settings.", None))
         ELSE None
    ELSE IF status = 402
    THEN Some(OpenRouterError("credits", "Insufficient credits. Add credits at openrouter.ai.", None))
    ELSE IF status = 429
    THEN IF att >= MAX_RETRIES - 1
         THEN Some(OpenRouterError("rate_limit", "Rate limited. Please wait and try again.",
                                   IF IsNone(resp.retry_after)
                                   THEN Some(BACKOFF_BASE ^ (att + 1)) ELSE resp.retry_after))
         ELSE None
    ELSE IF status = 400
    THEN IF resp.error_msg \in PolicyWording
         THEN Some(OpenRouterError("content_policy", "Your prompt was flagged by the model's content policy. Try adjusting your prompt.", None))
         ELSE Some(OpenRouterError("server", "Bad request: " \o resp.error_msg, None))
    ELSE IF status = 413
    THEN Some(OpenRouterError("server", "Request too large. Try a shorter prompt or smaller image.", None))
    ELSE IF status \in {500, 502, 503}
    THEN IF att >= MAX_RETRIES - 1
         THEN Some(OpenRouterError("server", "Server error (" \o ToString(status) \o "). The model may be temporarily unavailable.", None))
         ELSE None
    ELSE Some(OpenRouterError("server", "Unexpected error (" \o ToString(status) \o "): " \o resp.error_msg, None))

\* _handle_error_status with the bug "the word content is not looked for"
HandleErrorStatus_safety_policy_only(resp, att) ==
    LET status == resp.status IN
    IF status = 401
    THEN Some(OpenRouterError("auth", "Invalid API key. Update it in Settings.", None))
    ELSE IF status = 402
    THEN Some(OpenRouterError("credits", "Insufficient credits. Add credits at openrouter.ai.", None))
    ELSE IF status = 429
    THEN IF att >= MAX_RETRIES - 1
         THEN Some(OpenRouterError("rate_limit", "Rate limited. Please wait and try again.",
                                   IF IsNone(resp.retry_after)
                                   THEN Some(BACKOFF_BASE ^ (att + 1)) ELSE resp.retry_after))
         ELSE None
    ELSE IF status = 400
    THEN IF resp.error_msg \in {"blocked by safety filter"}
         THEN Some(OpenRouterError("content_policy", "Your prompt was flagged by the model's content policy. Try adjusting your prompt.", None))
         ELSE Some(OpenRouterError("server", "Bad request: " \o resp.error_msg, None))
    ELSE IF status = 413
    THEN Some(OpenRouterError("server", "Request too large. Try a shorter prompt or smaller image.", None))
    ELSE IF status \in {500, 502, 503}
    THEN IF att >= MAX_RETRIES - 1
         THEN Some(OpenRouterError("server", "Server error (" \o ToString(status) \o "). The model may be temporarily unavailable.", None))
         ELSE None
    ELSE Some(OpenRouterError("server", "Unexpected error (" \o ToString(status) \o "): " \o resp.error_msg, None))

\* _handle_error_status(response, attempt): Some(error) when it raises,
\* None when it returns to allow a retry
HandleErrorStatus(resp, att) ==
    LET status == resp.status IN
    IF status = 401
    THEN Some(OpenRouterError("auth", "Invalid API key. Update it in Settings.", None))
    ELSE IF status = 402
    THEN Some(OpenRouterError("credits", "Insufficient credits. Add credits at openrouter.ai.", None))
    ELSE IF status = 429
    THEN IF att >= MAX_RETRIES - 1
         THEN Some(OpenRouterError("rate_limit", "Rate limited. Please wait and try again.",
                                   IF IsNone(resp.retry_after)
                                   THEN Some(BACKOFF_BASE ^ (att + 1)) ELSE resp.retry_after))
         ELSE None
    ELSE IF status = 400
    THEN IF resp.error_msg \in PolicyWording
         THEN Some(OpenRouterError("content_policy", "Your prompt was flagged by the model's content policy. Try adjusting your prompt.", None))
         ELSE Some(OpenRouterError("server", "Bad request: " \o resp.error_msg, None))
    ELSE IF status = 413
    THEN Some(OpenRouterError("server", "Request too large. Try a shorter prompt or smaller image.", None))
    ELSE IF status \in {500, 502, 503}
    THEN IF att >= MAX_RETRIES - 1
         THEN Some(OpenRouterError("server", "Server error (" \o ToString(status) \o "). The model may be temporarily unavailable.", None))
         ELSE None
    ELSE Some(OpenRouterError("server", "Unexpected error (" \o ToString(status) \o "): " \o resp.error_msg, None))

\* the pre-attempt check with the bug "the flag is not looked at"
CancelObserved_never(has_event, is_set) == FALSE

\* the check at the head of the retry loop: `cancel_event and cancel_event.is_set()`
CancelObserved(has_event, is_set) == has_event /\ is_set

\* the backoff with the bug "always asyncio.sleep(backoff)": the event does not end it
SleepInterrupted_never(has_event, is_set) == FALSE

\* the backoff sleep: asyncio.wait_for(cancel_event.wait(), timeout=backoff)
\* returns as soon as the event is set; asyncio.sleep(backoff) when no event
\* was passed
SleepInterrupted(has_event, is_set) == has_event /\ is_set

\* the arguments of a generate_image call and the configuration it reads
GenRequests ==
    { [api_key |-> k, model_id |-> m, has_event |-> e, set_at_call |-> c] :
        k \in BOOLEAN,
        m \in {"google/gemini-2.5-flash-image", "black-forest-labs/flux.2-max", "acme/no-such-model"},
        e \in BOOLEAN, c \in BOOLEAN }

NoRequest == [api_key |-> FALSE, model_id |-> "", has_event |-> FALSE, set_at_call |-> FALSE]

\* MODELS[model_id]["type"]
ModelType(model_id) ==
    IF model_id \in {"google/gemini-2.5-flash-image", "google/gemini-3-pro-image-preview",
                     "openai/gpt-5-image"}
    THEN "conversational" ELSE "image_only"

NotCancelled == [pc |-> "never", elapsed |-> 0, calls |-> 0]

----------------------------------------------------------------------------
(* POST /generate and POST /generate/cancel/{request_id}:                   *)
(* backend/routers/generate.py.  Two requests may be in progress at once.   *)

\* the requests the model follows
Requests == {"first", "second"}

\* variations = max(1, min(4, request.variations))
MAX_VARIATIONS == 4
MIN_VARIATIONS == 1

ClampVariations(n) ==
    LET low == IF n < MAX_VARIATIONS THEN n ELSE MAX_VARIATIONS
    IN IF low > MIN_VARIATIONS THEN low ELSE MIN_VARIATIONS

\* an exception of _generate_single that is not an OpenRouterError
\* (save_image, generate_thumbnail, atomic_write_json raising)
UnexpectedError ==
    [ok |-> FALSE, error_type |-> "exception", message |-> "OSError", retry_after |-> None,
     text_response |-> None]

RateLimited(retry_after) ==
    OpenRouterError("rate_limit", "Rate limited. Please wait and try again.",
                    Some(retry_after))

InvalidKey == OpenRouterError("auth", "Invalid API key. Update it in Settings.", None)

\* how the provider behaves during one request, by name: what the c-th
\* _generate_single call of the request would give, were it made
ProviderScripts ==
    {"always served", "second call rate limited", "never served", "served at last",
     "first call unexpected", "first call invalid key"}

Provider(script, c) ==
    CASE script = "always served" -> GenerationResult(Some("done"))
      [] script = "second call rate limited" ->
            IF c = 2 THEN RateLimited(10) ELSE GenerationResult(Some("done"))
      [] script = "never served" -> InvalidKey
      [] script = "served at last" -> IF c < 8 THEN InvalidKey ELSE GenerationResult(None)
      [] script = "first call invalid key" ->
            IF c = 1 THEN InvalidKey ELSE GenerationResult(Some("done"))
      [] OTHER -> IF c = 1 THEN UnexpectedError ELSE GenerationResult(None)

\* the lists a client sends under the key "model_ids" with variations = 2:
\* too short, with an id that is no key of MODELS, and two keys of MODELS
BodyModelIds ==
    { <<"google/gemini-2.5-flash-image">>,
      <<"google/gemini-2.5-flash-image", "acme/no-such-model">>,
      <<"google/gemini-2.5-flash-image", "openai/gpt-5-image">> }

\* the GenerateRequest bodies a client sends, with the configuration
\* (get_api_key) and the provider's behaviour at the time of the request.
\* GenerateRequest declares prompt, model_id, request_id, ..., variations,
\* text_in_image, batch_id; any other key of the body is ignored by the
\* validation and is no attribute of the request object; body_model_ids is
\* the key "model_ids" of the body, None when the body has no such key.
GenerateRequests ==
    { [api_key |-> TRUE, model_id |-> "google/gemini-2.5-flash-image", variations |-> v,
       request_id |-> None, provider |-> p, body_model_ids |-> None] :
        v \in {0, 1, 2, 4, 7}, p \in ProviderScripts }
    \cup
    { [api_key |-> TRUE, model_id |-> "google/gemini-2.5-flash-image", variations |-> v,
       request_id |-> Some("req-a"), provider |-> "always served",
       body_model_ids |-> None] : v \in {1, 2} }
    \cup
    { [api_key |-> k, model_id |-> m, variations |-> 1, request_id |-> None,
       provider |-> "always served", body_model_ids |-> None] :
        k \in BOOLEAN, m \in {"google/gemini-2.5-flash-image", "acme/no-such-model"} }
    \cup
    { [api_key |-> TRUE, model_id |-> "google/gemini-2.5-flash-image", variations |-> 2,
       request_id |-> None, provider |-> "always served", body_model_ids |-> Some(ids)] :
        ids \in BodyModelIds }

NoGenerateRequest ==
    [api_key |-> FALSE, model_id |-> "", variations |-> 0, request_id |-> None,
     provider |-> "", body_model_ids |-> None]

\* the request ids a client may try to cancel
CancelIds == {"req-a", "req-b", uuid4(0)}

\* GenerateResponse (one generated image), as far as the handler decides it
GenerateResponse(image_id, text_response, batch_id) ==
    [image_id |-> image_id, text_response |-> text_response, batch_id |-> batch_id]

\* history_entry of _generate_single, as far as the handler decides it
HistoryEntry(image_id, text_response, batch_id) ==
    [image_id |-> image_id, text_response |-> text_response, batch_id |-> batch_id]

\* the HTTP answers of POST /generate
HTTPException(status_code, error_type, message, retry_after) ==
    [http |-> status_code, error_type |-> error_type, message |-> message,
     retry_after |-> retry_after, results |-> <<>>, total_requested |-> 0,
     total_completed |-> 0]

SingleAnswer(response) ==
    [http |-> "200", error_type |-> "", message |-> "", retry_after |-> None,
     results |-> <<response>>, total_requested |-> 1, total_completed |-> 1]

\* dict.pop(request_id, None)
Pop(registry, request_id) ==
    [k \in DOMAIN registry \ {request_id} |-> registry[k]]

\* registry[request_id] = event
Put(registry, request_id, r) ==
    [k \in DOMAIN registry \cup {request_id} |->
        IF k = request_id THEN r ELSE registry[k]]

----------------------------------------------------------------------------
(* The reference cache: backend/services/reference_store.py *)

\* reference ids, one more than the cache can hold, and the bytes of
\* reference images
RefIds == { "ref-" \o ToString(n) : n \in 1..(max_size + 1) }
RefBytes == {"jpeg-1", "jpeg-2"}

\* the bytes upload_reference writes to references/<id>.jpg; the file of an
\* id is written once, under a fresh uuid
UploadedBytes(reference_id) == IF reference_id = "ref-1" THEN "jpeg-1" ELSE "jpeg-2"

\* base64.b64encode(image_data).decode("ascii")
b64encode(image_data) == "b64<" \o image_data \o ">"

\* image_to_base64_url(image_data), mime_type "image/jpeg"
image_to_base64_url(image_data) == "data:image/jpeg;base64," \o b64encode(image_data)

\* the data URLs store() is called with
DataUrls == { image_to_base64_url(b) : b \in RefBytes }

\* reference_id in self._cache
Cached(c, reference_id) == \E i \in 1..Len(c) : c[i].id = reference_id

\* self._cache[reference_id]
CachedValue(c, reference_id) ==
    c[CHOOSE i \in 1..Len(c) : c[i].id = reference_id].data_url

\* the OrderedDict without the key
Without(c, reference_id) == SelectSeq(c, LAMBDA e : e.id # reference_id)

\* OrderedDict.move_to_end(reference_id)
move_to_end(c, reference_id) ==
    Append(Without(c, reference_id),
           [id |-> reference_id, data_url |-> CachedValue(c, reference_id)])

\* OrderedDict.popitem(last=False)
popitem_first(c) == Tail(c)

store_evicts_newest(c, reference_id, data_url, size) ==
    IF Cached(c, reference_id)
    THEN Append(Without(c, reference_id), [id |-> reference_id, data_url |-> data_url])
    ELSE LET inserted == Append(c, [id |-> reference_id, data_url |-> data_url])
         IN IF Len(inserted) > size THEN SubSeq(inserted, 1, Len(inserted) - 1) ELSE inserted

\* _ReferenceCache.store
store(c, reference_id, data_url, size) ==
    IF Cached(c, reference_id)
    THEN LET moved == move_to_end(c, reference_id)
         IN [moved EXCEPT ![Len(moved)].data_url = data_url]
    ELSE LET inserted == Append(c, [id |-> reference_id, data_url |-> data_url])
         IN IF Len(inserted) > size THEN popitem_first(inserted) ELSE inserted

get_leaves_order(c, files, reference_id, size) ==
    IF Cached(c, reference_id)
    THEN [cache |-> c, ret |-> Some(CachedValue(c, reference_id))]
    ELSE IF ~IsNone(files[reference_id])
    THEN LET data_url == image_to_base64_url(Val(files[reference_id]))
         IN [cache |-> store(c, reference_id, data_url, size), ret |-> Some(data_url)]
    ELSE [cache |-> c, ret |-> None]

\* _ReferenceCache.get: the cache after the call and the value returned
get(c, files, reference_id, size) ==
    IF Cached(c, reference_id)
    THEN LET moved == move_to_end(c, reference_id)
         IN [cache |-> moved, ret |-> Some(CachedValue(moved, reference_id))]
    ELSE IF ~IsNone(files[reference_id])
    THEN LET data_url == image_to_base64_url(Val(files[reference_id]))
         IN [cache |-> store(c, reference_id, data_url, size), ret |-> Some(data_url)]
    ELSE [cache |-> c, ret |-> None]

\* _ReferenceCache.delete
delete(c, reference_id) == Without(c, reference_id)

NoCall ==
    [op |-> "none", id |-> "", data_url |-> "", ret |-> None, pre |-> <<>>,
     pre_recency |-> <<>>, file |-> None]

\* the order of last use once reference_id is used, kept for the ids of c
Touch(recency, reference_id, c) ==
    SelectSeq(Append(SelectSeq(recency, LAMBDA i : i # reference_id), reference_id),
              LAMBDA i : Cached(c, i))

----------------------------------------------------------------------------
(* estimate_token_usage: backend/services/conversation.py.  Its argument is *)
(* a session of which only model_id, active_branch_id and, per turn, the    *)
(* prompt and the text_response matter; a text is given by len() of it.     *)

CHARS_PER_TOKEN == 4
\* CONTEXT_WARN_RATIO = 0.8, as numerator and denominator
CONTEXT_WARN_RATIO == <<8, 10>>
DEFAULT_CONTEXT_LIMIT == 128000

\* MODEL_CONTEXT_LIMITS.get(model_id, 128_000)
MODEL_CONTEXT_LIMITS(model_id) ==
    IF model_id \in {"google/gemini-2.5-flash-image", "google/gemini-3-pro-image-preview",
                     "openai/gpt-5-image"}
    THEN 128000 ELSE DEFAULT_CONTEXT_LIMIT

\* len(text) if text else 0
TextChars(text) == IF IsNone(text) THEN 0 ELSE Val(text)

RECURSIVE total_chars(_)
\* the loop over branch.turns
total_chars(turns) ==
    IF turns = <<>> THEN 0
    ELSE TextChars(Head(turns).prompt) + TextChars(Head(turns).text_response)
         + total_chars(Tail(turns))

\* round(estimated_tokens / context_limit, 3), in thousandths: the nearest
\* thousandth, the even one of two equally near
RoundedRatio(estimated_tokens, context_limit) ==
    LET scaled == estimated_tokens * 1000
        low    == scaled \div context_limit
        twice  == 2 * (scaled % context_limit)
    IN IF twice > context_limit \/ (twice = context_limit /\ low % 2 = 1) THEN low + 1 ELSE low

estimate_token_usage_strict(s) ==
    IF get_active_branch(s) = 0
    THEN [estimated_tokens |-> 0, context_limit |-> 0, usage_ratio |-> 0, near_limit |-> FALSE]
    ELSE LET estimated_tokens == total_chars(s.branches[get_active_branch(s)].turns)
                                    \div CHARS_PER_TOKEN
             context_limit    == MODEL_CONTEXT_LIMITS(s.model_id)
         IN [estimated_tokens |-> estimated_tokens,
             context_limit    |-> context_limit,
             usage_ratio      |-> RoundedRatio(estimated_tokens, context_limit),
             near_limit       |-> estimated_tokens * CONTEXT_WARN_RATIO[2]
                                    > CONTEXT_WARN_RATIO[1] * context_limit]

\* estimate_token_usage(session); usage_ratio >= CONTEXT_WARN_RATIO is
\* compared in integers (the two differ by at least 1/(5 * context_limit)
\* unless equal, far more than the rounding of the float division)
estimate_token_usage(s) ==
    IF get_active_branch(s) = 0
    THEN [estimated_tokens |-> 0, context_limit |-> 0, usage_ratio |-> 0, near_limit |-> FALSE]
    ELSE LET estimated_tokens == total_chars(s.branches[get_active_branch(s)].turns)
                                    \div CHARS_PER_TOKEN
             context_limit    == MODEL_CONTEXT_LIMITS(s.model_id)
         IN [estimated_tokens |-> estimated_tokens,
             context_limit    |-> context_limit,
             usage_ratio      |-> RoundedRatio(estimated_tokens, context_limit),
             near_limit       |-> estimated_tokens * CONTEXT_WARN_RATIO[2]
                                    >= CONTEXT_WARN_RATIO[1] * context_limit]

\* lengths of the texts of a turn
TextLengths == {1, 204800, 409599}

\* the turns of the sessions estimated: a user turn has a prompt, an
\* assistant turn has no prompt and may have a text response
TextTurns ==
    { [prompt |-> Some(n), text_response |-> None] : n \in TextLengths }
    \cup { [prompt |-> None, text_response |-> t] : t \in {None} \cup { Some(n) : n \in TextLengths } }

\* model ids of the sessions estimated: one with a declared limit, one without
TokenModelIds == {"google/gemini-2.5-flash-image", "black-forest-labs/flux.2-max"}

\* a session of two branches without turns
NoTexts ==
    [ model_id         |-> "google/gemini-2.5-flash-image",
      active_branch_id |-> "main",
      branches         |-> << [branch_id |-> "main", turns |-> <<>>],
                              [branch_id |-> "branch-1", turns |-> <<>>] >> ]

----------------------------------------------------------------------------
(* compress_for_size_limit: backend/services/image_processor.py.  An image  *)
(* is given by the length of its JPEG encoding at each quality and scale    *)
(* the function may ask for; scale is in percent of the linear dimensions.  *)

\* for quality in (85, 70, 55, 40), then for scale in (0.75, 0.5) at quality 40
Ladder ==
    << [quality |-> 85, scale |-> 100], [quality |-> 70, scale |-> 100],
       [quality |-> 55, scale |-> 100], [quality |-> 40, scale |-> 100],
       [quality |-> 40, scale |-> 75],  [quality |-> 40, scale |-> 50] >>

\* img.save(buf, "JPEG", quality=quality) of the image, resized when scale is not 100
SaveJpeg(image, step) ==
    [quality |-> Ladder[step].quality, scale |-> Ladder[step].scale, len |-> image[step]]

\* len(raw) * 4 // 3 <= max_base64_bytes
Fits(raw, max_base64_bytes) == (raw.len * 4) \div 3 <= max_base64_bytes

RECURSIVE TryFrom(_, _, _)
\* the two loops from one step of the ladder on, and the raise after them
TryFrom(image, max_base64_bytes, step) ==
    IF step > Len(Ladder) THEN [ret |-> "ValueError", raw |-> None]
    ELSE IF Fits(SaveJpeg(image, step), max_base64_bytes)
         THEN [ret |-> "bytes", raw |-> Some(SaveJpeg(image, step))]
         ELSE TryFrom(image, max_base64_bytes, step + 1)

compress_for_size_limit_full_size_only(image, max_base64_bytes) ==
    IF TryFrom(image, max_base64_bytes, 1).ret = "bytes"
       /\ Val(TryFrom(image, max_base64_bytes, 1).raw).scale # 100
    THEN [ret |-> "ValueError", raw |-> None]
    ELSE TryFrom(image, max_base64_bytes, 1)

\* compress_for_size_limit(image_data, max_base64_bytes) for image data
\* that Image.open reads
compress_for_size_limit(image, max_base64_bytes) == TryFrom(image, max_base64_bytes, 1)

\* lengths of an encoding: 6 and 7 bytes are 8 and 9 in base64
EncodedLengths == {3, 6, 7}

\* the images compressed: any length at any step (a lower quality or a
\* smaller scale need not give a shorter encoding)
Images == [1..Len(Ladder) -> EncodedLengths]

\* the budgets max_base64_bytes
Budgets == {2, 4, 8}

----------------------------------------------------------------------------
(* build_conversation_messages: backend/services/conversation.py.  Its      *)
(* argument is a session of which only active_branch_id and, per turn, the  *)
(* role, the prompt and the text_response matter; a message is the JSON     *)
(* value of its dict.                                                       *)

\* the messages one turn of the loop appends: none or one
TurnMessages(turn) ==
    IF turn.role = "user" /\ ~IsNone(turn.prompt) /\ Val(turn.prompt) # ""
    THEN << JsonObject([role    |-> JsonString("user"),
                        content |-> JsonArray(<< JsonObject([type |-> JsonString("text"),
                                                             text |-> JsonString(Val(turn.prompt))]) >>)]) >>
    ELSE IF turn.role = "assistant"
    THEN << JsonObject([role    |-> JsonString("assistant"),
                        content |-> JsonString(IF IsNone(turn.text_response) THEN ""
                                               ELSE Val(turn.text_response))]) >>
    ELSE <<>>

RECURSIVE MessagesOf(_)
\* the loop over branch.turns
MessagesOf(turns) ==
    IF turns = <<>> THEN <<>> ELSE TurnMessages(Head(turns)) \o MessagesOf(Tail(turns))

\* build_conversation_messages with the bug "the turns of every branch are taken"
build_conversation_messages_every_branch(s) ==
    IF get_active_branch(s) = 0 THEN <<>>
    ELSE MessagesOf(s.branches[1].turns \o s.branches[2].turns)

\* build_conversation_messages(session)
build_conversation_messages(s) ==
    IF get_active_branch(s) = 0 THEN <<>>
    ELSE MessagesOf(s.branches[get_active_branch(s)].turns)

\* the turns of the sessions given: user turns without prompt, with the
\* empty prompt and with two different prompts, assistant turns without
\* text response, with the empty one and with one
MessageTurns ==
    { [role |-> "user", prompt |-> p, text_response |-> None] :
        p \in {None, Some(""), Some("make it red"), Some("now blue")} }
    \cup { [role |-> "assistant", prompt |-> None, text_response |-> t] :
             t \in {None, Some(""), Some("done")} }

\* a session of two branches without turns
NoTurns ==
    [ active_branch_id |-> "main",
      branches         |-> << [branch_id |-> "main", turns |-> <<>>],
                              [branch_id |-> "branch-1", turns |-> <<>>] >> ]

----------------------------------------------------------------------------
(* The request size limit of generate_image: backend/services/openrouter.py *)
(* lines 307-313 and _compress_payload_images.  A payload is given by the   *)
(* bytes json.dumps writes outside the image data (model, modalities, the   *)
(* prompt, the conversation history, image_config) and by its image parts   *)
(* in the order of the content list; an image is the length of its bytes    *)
(* and the length of each JPEG encoding compress_for_size_limit may make.   *)

\* len(base64.b64encode(data)) for data of n bytes
Base64Length(n) == 4 * ((n + 2) \div 3)

\* bytes json.dumps writes for one image part and the separator before it:
\* {"type": "image_url", "image_url": {"url": "data:image/jpeg;base64,<data>"}}
ImagePartBytes(image) == 72 + Base64Length(image.len)

RECURSIVE ImageBytes(_)
ImageBytes(images) ==
    IF images = <<>> THEN 0 ELSE ImagePartBytes(Head(images)) + ImageBytes(Tail(images))

\* len(json.dumps(payload).encode())
SerializedSize(payload) == payload.text_bytes + ImageBytes(payload.images)

\* overhead = max_bytes // 10; target = max_bytes - overhead
Target(max_bytes) == max_bytes - (max_bytes \div 10)

\* per_image_budget = target // 2
PerImageBudget(max_bytes) == Target(max_bytes) \div 2

\* image_bytes as compress_for_size_limit returned them
Compressed(image, raw) == [image EXCEPT !.len = raw.len]

RECURSIVE CompressFrom(_, _, _)
\* the loop over the image parts from part i on: the parts as they are after
\* it, the budget each call of compress_for_size_limit was given, and the
\* ValueError that ended it if one did
CompressFrom(images, max_bytes, i) ==
    IF i > Len(images) THEN [ret |-> "None", images |-> images, budgets |-> <<>>]
    ELSE LET r == compress_for_size_limit(images[i].enc, PerImageBudget(max_bytes))
         IN  IF r.ret = "ValueError"
             THEN [ret |-> "ValueError", images |-> images,
                   budgets |-> << PerImageBudget(max_bytes) >>]
             ELSE LET rest == CompressFrom([images EXCEPT ![i] = Compressed(@, Val(r.raw))],
                                           max_bytes, i + 1)
                  IN  [rest EXCEPT !.budgets = << PerImageBudget(max_bytes) >> \o @]

ImageTooLarge ==
    OpenRouterError("server", "Reference image too large for this model's 4.5MB request limit. Try using a smaller image.", None)

\* f"Request payload ({final_size // 1024}KB) exceeds this model's
\* {max_bytes // (1024 * 1024)}MB limit even after compression. ..."
PayloadTooLarge(final_size, max_bytes) ==
    OpenRouterError("server",
        "Request payload (" \o ToString(final_size \div 1024) \o "KB) exceeds this model's "
        \o ToString(max_bytes \div (1024 * 1024))
        \o "MB limit even after compression. Try using fewer or smaller reference images.",
        None)

\* _compress_payload_images with the bug "the final size is not verified"
compress_payload_images_unverified(payload, max_bytes) ==
    LET c == CompressFrom(payload.images, max_bytes, 1)
    IN  IF c.ret = "ValueError"
        THEN [ret |-> "OpenRouterError", error |-> Some(ImageTooLarge), payload |-> payload,
              budgets |-> c.budgets]
        ELSE [ret |-> "None", error |-> None, payload |-> [payload EXCEPT !.images = c.images],
              budgets |-> c.budgets]

\* _compress_payload_images(payload, max_bytes): the payload as it is left
\* and the error raised if one is
compress_payload_images(payload, max_bytes) ==
    LET c == CompressFrom(payload.images, max_bytes, 1)
        compressed == [payload EXCEPT !.images = c.images]
    IN  IF c.ret = "ValueError"
        THEN [ret |-> "OpenRouterError", error |-> Some(ImageTooLarge), payload |-> payload,
              budgets |-> c.budgets]
        ELSE IF SerializedSize(compressed) > max_bytes
        THEN [ret |-> "OpenRouterError",
              error |-> Some(PayloadTooLarge(SerializedSize(compressed), max_bytes)),
              payload |-> compressed, budgets |-> c.budgets]
        ELSE [ret |-> "None", error |-> None, payload |-> compressed, budgets |-> c.budgets]

\* lines 307-313 of generate_image and the first client.post of the retry
\* loop: bodies holds the size of the body of each post issued
EnforceSizeLimit(max_request_bytes, payload) ==
    IF IsNone(max_request_bytes) \/ SerializedSize(payload) <= Val(max_request_bytes)
    THEN [ret |-> "posted", error |-> None, bodies |-> << SerializedSize(payload) >>,
          budgets |-> <<>>]
    ELSE LET c == compress_payload_images(payload, Val(max_request_bytes))
         IN  IF c.ret = "OpenRouterError"
             THEN [ret |-> "OpenRouterError", error |-> c.error, bodies |-> <<>>,
                   budgets |-> c.budgets]
             ELSE [ret |-> "posted", error |-> None,
                   bodies |-> << SerializedSize(c.payload) >>, budgets |-> c.budgets]

\* the images sent as references: a thumbnail, a small image whose encoding
\* at quality 85 is longer than the image, a photo that fits a budget of 450
\* at quality 70, a scan that fits it at half the scale only, a poster that
\* fits neither budget
PayloadImages ==
    { [len |-> 150,  enc |-> <<150, 120, 105, 90, 60, 45>>],
      [len |-> 150,  enc |-> <<330, 300, 270, 240, 150, 90>>],
      [len |-> 600,  enc |-> <<600, 330, 300, 270, 210, 150>>],
      [len |-> 900,  enc |-> <<900, 800, 700, 600, 450, 336>>],
      [len |-> 3000, enc |-> <<3000, 2700, 2400, 2100, 1500, 900>>] }

\* bytes of the payload outside the image data
TextBytes == {130, 400}

\* max_request_bytes of the model: not declared, or one of two budgets
RequestLimits == {None, Some(1000), Some(2000)}

\* the payload of a request without reference images
NoImages == [text_bytes |-> 130, images |-> <<>>]

----------------------------------------------------------------------------
(* Handlers of the conversation router.  Each loads the session from disk, *)
(* calls one engine operation on the loaded object and returns.            *)

NoOp == [op |-> "none", index |-> 0, branch_id |-> "", ret |-> "", saved |-> FALSE,
         detail |-> "", pre |-> None, pre_disk |-> None]

Record(op, index, branch_id, r) ==
    [op |-> op, index |-> index, branch_id |-> branch_id, ret |-> r.ret, saved |-> r.saved,
     detail |-> "", pre |-> load_session(disk), pre_disk |-> disk]

\* what a handler leaves behind: the object it worked on, the document if it saved
Apply(op, index, branch_id, r) ==
    /\ session' = Some(r.session)
    /\ disk' = IF r.saved THEN Document(r.session) ELSE disk
    /\ last' = Record(op, index, branch_id, r)
    /\ now' = now + 1

NotFound(op) ==
    /\ session' = None
    /\ last' = [NoOp EXCEPT !.op = op, !.ret = "404"]
    /\ now' = now + 1
    /\ UNCHANGED disk

Init ==
    /\ disk = None
    /\ session = None
    /\ now = 0
    /\ uuid_ctr = 0
    /\ last = NoOp
    /\ editSession = None
    /\ editPre = <<>>
    /\ editPc = "idle"
    /\ gpc = "idle"
    /\ greq = NoRequest
    /\ attempt = 0
    /\ cancel_event = FALSE
    /\ cancel_at = NotCancelled
    /\ backoff = 0
    /\ elapsed = 0
    /\ calls = 0
    /\ responses = <<>>
    /\ sleeps = <<>>
    /\ outcome = None
    /\ active_generations = <<>>
    /\ hpc = [r \in Requests |-> "idle"]
    /\ hreq = [r \in Requests |-> NoGenerateRequest]
    /\ hevent = [r \in Requests |-> FALSE]
    /\ hresp = [r \in Requests |-> None]
    /\ hcancelled = [id |-> "", cancelled |-> ""]
    /\ history = <<>>
    /\ ref_cache = <<>>
    /\ ref_files = [id \in RefIds |-> None]
    /\ ref_recency = <<>>
    /\ ref_last = NoCall
    /\ tok_session = NoTexts
    /\ tok_result = None
    /\ cmp_image = [step \in 1..Len(Ladder) |-> 3]
    /\ cmp_budget = 4
    /\ cmp_result = None
    /\ msg_session = NoTurns
    /\ msg_result = None
    /\ pay_limit = None
    /\ pay_payload = NoImages
    /\ pay_result = None
    /\ deleted = {}

\* POST /conversation/sessions
CreateSession ==
    /\ now < MaxOps
    /\ IsNone(disk)
    /\ \E m \in SessionModelIds :
         LET s == create_session(m, uuid4(uuid_ctr + 1), now) IN
         /\ session' = Some(s)
         /\ disk' = Document(s)
         /\ last' = [NoOp EXCEPT !.op = "create", !.saved = TRUE]
    /\ now' = now + 1
    /\ uuid_ctr' = uuid_ctr + 1
    /\ UNCHANGED <<editSession, editPre, editPc>>
    /\ UNCHANGED notSessionVars

\* add_turn as the engine offers it to its callers
AddTurn ==
    /\ now < MaxOps
    /\ ~IsNone(disk)
    /\ Len(ActiveTurns(Val(load_session(disk)))) < MaxTurns
    /\ \E inp \in TurnInputs :
         LET s   == Val(load_session(disk))
             img == IF inp.has_image THEN Some(uuid4(uuid_ctr + 2)) ELSE None
             r   == add_turn(s, inp.role, inp.prompt, img, ImageUrl(img), ThumbnailUrl(img),
                             inp.text_response, inp.usage, uuid4(uuid_ctr + 1), now)
         IN  /\ Apply("add", 0, "", r)
             /\ uuid_ctr' = uuid_ctr + 2
    /\ UNCHANGED <<editSession, editPre, editPc>>
    /\ UNCHANGED notSessionVars

\* POST /conversation/undo/{session_id}
UndoTurn ==
    /\ now < MaxOps
    /\ IF IsNone(load_session(disk))
       THEN NotFound("undo")
       ELSE Apply("undo", 0, "", undo_turn(Val(load_session(disk)), now))
    /\ UNCHANGED <<uuid_ctr, editSession, editPre, editPc>>
    /\ UNCHANGED notSessionVars

\* POST /conversation/revert
RevertToTurn ==
    /\ now < MaxOps
    /\ \E i \in TurnIndices :
         IF IsNone(load_session(disk))
         THEN NotFound("revert")
         ELSE Apply("revert", i, "", revert_to_turn(Val(load_session(disk)), i, now))
    /\ UNCHANGED <<uuid_ctr, editSession, editPre, editPc>>
    /\ UNCHANGED notSessionVars

\* POST /conversation/branch
BranchFromTurn ==
    /\ now < MaxOps
    /\ \E i \in TurnIndices :
         IF IsNone(load_session(disk))
         THEN NotFound("branch") /\ UNCHANGED uuid_ctr
         ELSE /\ Len(Val(load_session(disk)).branches) < MaxBranches
              /\ Apply("branch", i, "",
                       branch_from_turn(Val(load_session(disk)), i, uuid4(uuid_ctr + 1), now))
              /\ uuid_ctr' = uuid_ctr + 1
    /\ UNCHANGED <<editSession, editPre, editPc>>
    /\ UNCHANGED notSessionVars

\* POST /conversation/switch-branch/{session_id}/{branch_id}
SwitchBranch ==
    /\ now < MaxOps
    /\ IF IsNone(load_session(disk))
       THEN NotFound("switch")
       ELSE \E id \in { Val(load_session(disk)).branches[i].branch_id :
                          i \in 1..Len(Val(load_session(disk)).branches) }
                      \cup {UnknownBranchId} :
              Apply("switch", 0, id, switch_branch(Val(load_session(disk)), id, now))
    /\ UNCHANGED <<uuid_ctr, editSession, editPre, editPc>>
    /\ UNCHANGED notSessionVars

\* POST /conversation/subject-lock
SetSubjectLock ==
    /\ now < MaxOps
    /\ IF IsNone(load_session(disk))
       THEN NotFound("lock")
       ELSE \E locked \in BOOLEAN, image_id \in {None, Some("img-locked")} :
              LET r == set_subject_lock(Val(load_session(disk)), locked, image_id, now) IN
              /\ session' = Some(r.session)
              /\ disk' = Document(r.session)
              /\ last' = [Record(IF locked THEN "lock" ELSE "unlock", 0, "", r)
                            EXCEPT !.detail = IF IsNone(image_id) THEN "" ELSE Val(image_id)]
              /\ now' = now + 1
    /\ UNCHANGED <<uuid_ctr, editSession, editPre, editPc>>
    /\ UNCHANGED notSessionVars

\* POST /conversation/edit, up to the await of generate_image: the early
\* returns, then the user turn is added to the loaded session and saved
EditBegin ==
    /\ now < MaxOps
    /\ editPc = "idle"
    /\ \E req \in EditRequests :
         LET loaded == load_session(disk) IN
         IF ~req.api_key
         THEN /\ last' = [NoOp EXCEPT !.op = "edit", !.ret = "400", !.detail = "No API key configured"]
              /\ UNCHANGED <<disk, editSession, editPre, editPc, uuid_ctr>>
         ELSE IF IsNone(loaded)
         THEN /\ last' = [NoOp EXCEPT !.op = "edit", !.ret = "404", !.detail = "Session not found"]
              /\ UNCHANGED <<disk, editSession, editPre, editPc, uuid_ctr>>
         ELSE IF (IF IsNone(req.model_id) THEN Val(loaded).model_id ELSE Val(req.model_id)) \notin MODELS
         THEN /\ last' = [NoOp EXCEPT !.op = "edit", !.ret = "400", !.detail = "Unknown model"]
              /\ UNCHANGED <<disk, editSession, editPre, editPc, uuid_ctr>>
         ELSE /\ Len(ActiveTurns(Val(loaded))) + 2 <= MaxTurns
              /\ LET r == add_turn(Val(loaded), "user", Some(req.prompt), None, None, None,
                                   None, None, uuid4(uuid_ctr + 1), now)
                 IN  IF r.ret = "ValueError"
                     THEN \* except Exception: undo_turn(session), then HTTP 500
                          LET u == undo_turn(r.session, now) IN
                          /\ editSession' = Some(u.session)
                          /\ disk' = IF u.saved THEN Document(u.session) ELSE disk
                          /\ editPre' = ActiveTurns(Val(loaded))
                          /\ editPc' = "idle"
                          /\ last' = [NoOp EXCEPT !.op = "edit", !.ret = "500", !.detail = "add_turn",
                                                  !.pre = loaded, !.pre_disk = disk]
                     ELSE /\ editSession' = Some(r.session)
                          /\ disk' = Document(r.session)
                          /\ editPre' = ActiveTurns(Val(loaded))
                          /\ editPc' = "generating"
                          /\ last' = [NoOp EXCEPT !.op = "edit_begin", !.saved = TRUE,
                                                  !.pre = loaded, !.pre_disk = disk]
              /\ uuid_ctr' = uuid_ctr + 1
    /\ now' = now + 1
    /\ UNCHANGED session
    /\ UNCHANGED notSessionVars

\* conversation_edit from the return of generate_image to the response: the
\* image is stored, the assistant turn added, the global history written;
\* either except clause calls undo_turn(session) once
EditResume ==
    /\ now < MaxOps
    /\ editPc = "generating"
    /\ \E out \in EditOutcomes :
         LET s == Val(editSession) IN
         IF out.step \in {"generate_image", "save_image"}
         THEN LET u == undo_turn(s, now) IN
              /\ editSession' = Some(u.session)
              /\ disk' = IF u.saved THEN Document(u.session) ELSE disk
              /\ last' = [NoOp EXCEPT !.op = "edit", !.ret = out.http, !.detail = out.error_type,
                                      !.saved = u.saved, !.pre_disk = disk]
              /\ uuid_ctr' = uuid_ctr
         ELSE LET a == add_turn(s, "assistant", None, Some(uuid4(uuid_ctr + 1)),
                                ImageUrl(Some(uuid4(uuid_ctr + 1))),
                                ThumbnailUrl(Some(uuid4(uuid_ctr + 1))),
                                out.text_response, out.usage, uuid4(uuid_ctr + 2), now)
              IN  /\ uuid_ctr' = uuid_ctr + 2
                  /\ IF a.ret = "ValueError" \/ out.step = "history"
                     THEN LET u == undo_turn(a.session, now) IN
                          /\ editSession' = Some(u.session)
                          /\ disk' = IF u.saved THEN Document(u.session)
                                     ELSE IF a.saved THEN Document(a.session) ELSE disk
                          /\ last' = [NoOp EXCEPT !.op = "edit", !.ret = "500", !.detail = "server",
                                                  !.saved = TRUE, !.pre_disk = disk]
                     ELSE /\ editSession' = Some(a.session)
                          /\ disk' = Document(a.session)
                          /\ last' = [NoOp EXCEPT !.op = "edit", !.ret = "200",
                                                  !.saved = TRUE, !.pre_disk = disk]
    /\ editPc' = "idle"
    /\ now' = now + 1
    /\ UNCHANGED <<session, editPre>>
    /\ UNCHANGED notSessionVars

Next ==
    \/ CreateSession
    \/ AddTurn
    \/ UndoTurn
    \/ RevertToTurn
    \/ BranchFromTurn
    \/ SwitchBranch
    \/ SetSubjectLock
    \/ EditBegin
    \/ EditResume

Spec == Init /\ [][Next]_vars

----------------------------------------------------------------------------
(* The session's file: the handlers above, the deletion of the session and  *)
(* a save that does not complete.  The file followed is the one of the      *)
(* first session created; a session created later has another path.        *)

\* POST /conversation/sessions while no session was created yet
CreateFirstSession ==
    /\ deleted = {}
    /\ CreateSession

\* DELETE /conversation/sessions/{session_id}
DeleteSession ==
    /\ now < MaxOps
    /\ LET d == delete_session(disk) IN
       /\ disk' = d.file
       /\ last' = [NoOp EXCEPT !.op = "delete", !.ret = d.ret, !.pre = load_session(disk),
                               !.pre_disk = disk]
       /\ deleted' = IF IsNone(load_session(disk)) THEN deleted
                     ELSE deleted \cup {Val(load_session(disk)).session_id}
    /\ session' = None
    /\ now' = now + 1
    /\ UNCHANGED <<uuid_ctr, editSession, editPre, editPc>>
    /\ UNCHANGED notStoreVars

\* the process ends while a handler is in save_session for the session on
\* disk: atomic_write has completed or not; the session objects in memory
\* and the edit request in flight are gone
SaveInterrupted ==
    /\ now < MaxOps
    /\ ~IsNone(load_session(disk))
    /\ \E completed \in BOOLEAN :
         disk' = atomic_write(disk,
                              atomic_write_json(model_dump(save_session(Val(load_session(disk)), now))),
                              completed)
    /\ last' = [NoOp EXCEPT !.op = "interrupted", !.pre = load_session(disk), !.pre_disk = disk]
    /\ session' = None
    /\ editSession' = None
    /\ editPre' = <<>>
    /\ editPc' = "idle"
    /\ now' = now + 1
    /\ UNCHANGED uuid_ctr
    /\ UNCHANGED notSessionVars

NextStore ==
    \/ CreateFirstSession
    \/ AddTurn
    \/ UndoTurn
    \/ RevertToTurn
    \/ BranchFromTurn
    \/ SwitchBranch
    \/ SetSubjectLock
    \/ EditBegin
    \/ EditResume
    \/ DeleteSession
    \/ SaveInterrupted

SpecStore == Init /\ [][NextStore]_vars

----------------------------------------------------------------------------
(* generate_image as a process: one call at a time, from its first line to *)
(* its return or raise.  Time passes in seconds while it sleeps.           *)

Finish(result) ==
    /\ gpc' = "done"
    /\ outcome' = Some(result)

\* generate_image with the bug "model_id is not looked up in MODELS"
GenStart_model_unchecked ==
    /\ gpc \in {"idle", "done"}
    /\ \E r \in GenRequests :
         /\ greq' = r
         /\ cancel_event' = (r.has_event /\ r.set_at_call)
         /\ cancel_at' = IF r.has_event /\ r.set_at_call
                         THEN [pc |-> "before", elapsed |-> 0, calls |-> 0] ELSE NotCancelled
         /\ IF ~r.api_key
            THEN Finish(OpenRouterError("auth", "No API key configured", None))
            ELSE gpc' = "check" /\ outcome' = None
    /\ attempt' = 0
    /\ backoff' = 0
    /\ elapsed' = 0
    /\ calls' = 0
    /\ responses' = <<>>
    /\ sleeps' = <<>>
    /\ UNCHANGED notGenVars

\* generate_image is called: the API key and model checks, then the loop is entered
GenStart ==
    /\ gpc \in {"idle", "done"}
    /\ \E r \in GenRequests :
         /\ greq' = r
         /\ cancel_event' = (r.has_event /\ r.set_at_call)
         /\ cancel_at' = IF r.has_event /\ r.set_at_call
                         THEN [pc |-> "before", elapsed |-> 0, calls |-> 0] ELSE NotCancelled
         /\ IF ~r.api_key
            THEN Finish(OpenRouterError("auth", "No API key configured", None))
            ELSE IF r.model_id \notin MODELS
            THEN Finish(OpenRouterError("server", "Unknown model: " \o r.model_id, None))
            ELSE gpc' = "check" /\ outcome' = None
    /\ attempt' = 0
    /\ backoff' = 0
    /\ elapsed' = 0
    /\ calls' = 0
    /\ responses' = <<>>
    /\ sleeps' = <<>>
    /\ UNCHANGED notGenVars

\* head of the retry loop: the cancellation check, then client.post is started
GenAttempt ==
    /\ gpc = "check"
    /\ IF attempt >= MAX_RETRIES
       THEN Finish(OpenRouterError("server", "Max retries exceeded", None)) /\ calls' = calls
       ELSE IF CancelObserved(greq.has_event, cancel_event)
       THEN Finish(CancelledError) /\ calls' = calls
       ELSE gpc' = "inflight" /\ calls' = calls + 1 /\ outcome' = outcome
    /\ UNCHANGED <<greq, attempt, cancel_event, cancel_at, backoff, elapsed, responses, sleeps>>
    /\ UNCHANGED notGenVars

\* client.post with the bug "a response that arrives after the event was set is dropped"
GenRespond_aborted_by_cancel ==
    /\ gpc = "inflight"
    /\ \E resp \in Responses :
         /\ responses' = Append(responses, resp)
         /\ IF resp.exc = "TimeoutException"
            THEN Finish(OpenRouterError("timeout", "Request timed out after 120 seconds", None))
                 /\ UNCHANGED <<backoff, elapsed>>
            ELSE IF resp.exc = "ConnectError"
            THEN Finish(OpenRouterError("network", "Unable to connect to OpenRouter. Check your internet connection.", None))
                 /\ UNCHANGED <<backoff, elapsed>>
            ELSE IF resp.exc # ""
            THEN Finish(UnexpectedFailure(resp.exc))
                 /\ UNCHANGED <<backoff, elapsed>>
            ELSE IF resp.status = 200
            THEN Finish(IF cancel_event THEN CancelledError
                        ELSE ParseResponse(resp.body, ModelType(greq.model_id)))
                 /\ UNCHANGED <<backoff, elapsed>>
            ELSE IF ~IsNone(HandleErrorStatus(resp, attempt))
            THEN Finish(Val(HandleErrorStatus(resp, attempt)))
                 /\ UNCHANGED <<backoff, elapsed>>
            ELSE /\ gpc' = "sleep"
                 /\ backoff' = BACKOFF_BASE ^ (attempt + 1)
                 /\ elapsed' = 0
                 /\ outcome' = outcome
    /\ UNCHANGED <<greq, attempt, cancel_event, cancel_at, calls, sleeps>>
    /\ UNCHANGED notGenVars

\* client.post returns or raises: 200 is parsed, any other status goes
\* through _handle_error_status, which raises or returns to let the loop back off
GenRespond ==
    /\ gpc = "inflight"
    /\ \E resp \in Responses :
         /\ responses' = Append(responses, resp)
         /\ IF resp.exc = "TimeoutException"
            THEN Finish(OpenRouterError("timeout", "Request timed out after 120 seconds", None))
                 /\ UNCHANGED <<backoff, elapsed>>
            ELSE IF resp.exc = "ConnectError"
            THEN Finish(OpenRouterError("network", "Unable to connect to OpenRouter. Check your internet connection.", None))
                 /\ UNCHANGED <<backoff, elapsed>>
            ELSE IF resp.exc # ""
            THEN Finish(UnexpectedFailure(resp.exc))
                 /\ UNCHANGED <<backoff, elapsed>>
            ELSE IF resp.status = 200
            THEN Finish(ParseResponse(resp.body, ModelType(greq.model_id)))
                 /\ UNCHANGED <<backoff, elapsed>>
            ELSE IF ~IsNone(HandleErrorStatus(resp, attempt))
            THEN Finish(Val(HandleErrorStatus(resp, attempt)))
                 /\ UNCHANGED <<backoff, elapsed>>
            ELSE /\ gpc' = "sleep"
                 /\ backoff' = BACKOFF_BASE ^ (attempt + 1)
                 /\ elapsed' = 0
                 /\ outcome' = outcome
    /\ UNCHANGED <<greq, attempt, cancel_event, cancel_at, calls, sleeps>>
    /\ UNCHANGED notGenVars

\* one second of the backoff sleep passes
GenTick ==
    /\ gpc = "sleep"
    /\ elapsed < backoff
    /\ ~SleepInterrupted(greq.has_event, cancel_event)
    /\ elapsed' = elapsed + 1
    /\ UNCHANGED <<gpc, greq, attempt, cancel_event, cancel_at, backoff, calls, responses,
                   sleeps, outcome>>
    /\ UNCHANGED notGenVars

\* the backoff ran its full time: the loop goes on with the next attempt
GenSleepDone ==
    /\ gpc = "sleep"
    /\ elapsed = backoff
    /\ sleeps' = Append(sleeps, elapsed)
    /\ attempt' = attempt + 1
    /\ gpc' = "check"
    /\ UNCHANGED <<greq, cancel_event, cancel_at, backoff, elapsed, calls, responses, outcome>>
    /\ UNCHANGED notGenVars

\* the event was set while the backoff sleep was waiting on it
GenSleepCancelled ==
    /\ gpc = "sleep"
    /\ SleepInterrupted(greq.has_event, cancel_event)
    /\ sleeps' = Append(sleeps, elapsed)
    /\ Finish(CancelledError)
    /\ UNCHANGED <<greq, attempt, cancel_event, cancel_at, backoff, elapsed, calls, responses>>
    /\ UNCHANGED notGenVars

\* the owner of the event sets it (cancel_generation) while generate_image runs
GenSetCancel ==
    /\ gpc \in {"check", "inflight", "sleep"}
    /\ greq.has_event
    /\ ~cancel_event
    /\ cancel_event' = TRUE
    /\ cancel_at' = [pc |-> gpc, elapsed |-> elapsed, calls |-> calls]
    /\ UNCHANGED <<gpc, greq, attempt, backoff, elapsed, calls, responses, sleeps, outcome>>
    /\ UNCHANGED notGenVars

NextGen ==
    \/ GenStart
    \/ GenAttempt
    \/ GenRespond
    \/ GenTick
    \/ GenSleepDone
    \/ GenSleepCancelled
    \/ GenSetCancel

SpecGen == Init /\ [][NextGen]_vars

----------------------------------------------------------------------------
(* The handlers of the generate router *)

\* generate(): from its first line to the first await, or to its answer when
\* it reaches none
GenerateBegin(r) ==
    /\ hpc[r] = "idle"
    /\ \E req \in GenerateRequests :
         IF ~req.api_key
         THEN /\ hresp' = [hresp EXCEPT ![r] = Some(HTTPException("400", "auth",
                              "No API key configured. Go to Settings to add your OpenRouter API key.",
                              None))]
              /\ hreq' = [hreq EXCEPT ![r] = req]
              /\ hpc' = [hpc EXCEPT ![r] = "done"]
              /\ UNCHANGED <<active_generations, hevent, uuid_ctr>>
         ELSE IF req.model_id \notin MODELS
         THEN /\ hresp' = [hresp EXCEPT ![r] = Some(HTTPException("400", "server",
                              "Unknown model: " \o req.model_id, None))]
              /\ hreq' = [hreq EXCEPT ![r] = req]
              /\ hpc' = [hpc EXCEPT ![r] = "done"]
              /\ UNCHANGED <<active_generations, hevent, uuid_ctr>>
         ELSE LET variations == ClampVariations(req.variations)
                  drawn      == IF IsNone(req.request_id) THEN 1 ELSE 0
                  request_id == IF IsNone(req.request_id) THEN uuid4(uuid_ctr)
                                ELSE Val(req.request_id)
                  registered == Put(active_generations, request_id, r)
              IN /\ hreq' = [hreq EXCEPT ![r] = [req EXCEPT !.request_id = Some(request_id)]]
                 /\ hevent' = [hevent EXCEPT ![r] = FALSE]
                 /\ IF variations = 1
                    THEN \* await _generate_single(request, cancel_event)
                         /\ active_generations' = registered
                         /\ hpc' = [hpc EXCEPT ![r] = "single"]
                         /\ uuid_ctr' = uuid_ctr + drawn
                         /\ UNCHANGED hresp
                    ELSE \* batch_id is drawn, completed and errors are empty,
                         \* stagger_delay is 5.0; then request.model_ids is read
                         \* (generate.py:198).  GenerateRequest declares no field
                         \* model_ids (models/generation.py:15-31), the attribute
                         \* access raises AttributeError: except Exception answers
                         \* 500, then the finally clause runs
                         /\ hresp' = [hresp EXCEPT ![r] = Some(HTTPException("500", "server",
                                         "An unexpected error occurred during generation.",
                                         None))]
                         /\ active_generations' = Pop(registered, request_id)
                         /\ hpc' = [hpc EXCEPT ![r] = "done"]
                         /\ uuid_ctr' = uuid_ctr + drawn + 1
    /\ UNCHANGED <<hcancelled, history>>
    /\ UNCHANGED notHandlerVars

\* _generate_single returns or raises in a request of one variation; the
\* handler answers and its finally clause runs
GenerateSingleEnd(r) ==
    /\ hpc[r] = "single"
    /\ \E result \in {Provider(hreq[r].provider, 1)} \cup (IF hevent[r] THEN {CancelledError} ELSE {}) :
         /\ hresp' = [hresp EXCEPT ![r] =
                IF result.ok
                THEN Some(SingleAnswer(GenerateResponse(uuid4(uuid_ctr), result.text_response, None)))
                ELSE IF result.error_type = "exception"
                THEN Some(HTTPException("500", "server",
                                        "An unexpected error occurred during generation.", None))
                ELSE Some(HTTPException("422", result.error_type, result.message,
                                        result.retry_after))]
         /\ uuid_ctr' = IF result.ok THEN uuid_ctr + 1 ELSE uuid_ctr
         /\ history' = IF result.ok
                       THEN Append(history, HistoryEntry(uuid4(uuid_ctr), result.text_response, None))
                       ELSE history
    /\ active_generations' = Pop(active_generations, Val(hreq[r].request_id))
    /\ hpc' = [hpc EXCEPT ![r] = "done"]
    /\ UNCHANGED <<hreq, hevent, hcancelled>>
    /\ UNCHANGED notHandlerVars

\* POST /generate/cancel/{request_id}
CancelGeneration ==
    /\ \E id \in CancelIds :
         IF id \in DOMAIN active_generations
         THEN /\ hevent' = [hevent EXCEPT ![active_generations[id]] = TRUE]
              /\ hcancelled' = [id |-> id, cancelled |-> "True"]
         ELSE /\ hcancelled' = [id |-> id, cancelled |-> "False"]
              /\ UNCHANGED hevent
    /\ UNCHANGED <<active_generations, hpc, hreq, hresp, uuid_ctr, history>>
    /\ UNCHANGED notHandlerVars

NextHandler ==
    \/ \E r \in Requests : GenerateBegin(r)
    \/ \E r \in Requests : GenerateSingleEnd(r)
    \/ CancelGeneration

SpecHandler == Init /\ [][NextHandler]_vars

----------------------------------------------------------------------------
(* Calls on the reference cache, and the reference files coming and going *)

CallRecord(op, reference_id, data_url, ret) ==
    [op |-> op, id |-> reference_id, data_url |-> data_url, ret |-> ret, pre |-> ref_cache,
     pre_recency |-> ref_recency, file |-> ref_files[reference_id]]

\* store_reference(reference_id, data_url)
StoreReference ==
    /\ \E reference_id \in RefIds, data_url \in DataUrls :
         /\ ref_cache' = store(ref_cache, reference_id, data_url, max_size)
         /\ ref_recency' = Touch(ref_recency, reference_id, ref_cache')
         /\ ref_last' = CallRecord("store", reference_id, data_url, None)
    /\ UNCHANGED ref_files
    /\ UNCHANGED notCacheVars

\* get_reference(reference_id)
GetReference ==
    /\ \E reference_id \in RefIds :
         LET r == get(ref_cache, ref_files, reference_id, max_size) IN
         /\ ref_cache' = r.cache
         /\ ref_recency' = IF IsNone(r.ret) THEN ref_recency
                            ELSE Touch(ref_recency, reference_id, r.cache)
         /\ ref_last' = CallRecord("get", reference_id, "", r.ret)
    /\ UNCHANGED ref_files
    /\ UNCHANGED notCacheVars

\* delete_reference(reference_id)
DeleteReference ==
    /\ \E reference_id \in RefIds :
         /\ ref_cache' = delete(ref_cache, reference_id)
         /\ ref_recency' = SelectSeq(ref_recency, LAMBDA i : i # reference_id)
         /\ ref_last' = CallRecord("delete", reference_id, "", None)
    /\ UNCHANGED ref_files
    /\ UNCHANGED notCacheVars

\* a reference file is written (upload_reference: ref_path.write_bytes)
WriteReferenceFile ==
    /\ \E reference_id \in RefIds :
         /\ IsNone(ref_files[reference_id])
         /\ ref_files' = [ref_files EXCEPT ![reference_id] = Some(UploadedBytes(reference_id))]
    /\ UNCHANGED <<ref_cache, ref_recency, ref_last>>
    /\ UNCHANGED notCacheVars

\* a reference file is removed (delete_reference of the router: ref_path.unlink)
UnlinkReferenceFile ==
    /\ \E reference_id \in RefIds :
         /\ ~IsNone(ref_files[reference_id])
         /\ ref_files' = [ref_files EXCEPT ![reference_id] = None]
    /\ UNCHANGED <<ref_cache, ref_recency, ref_last>>
    /\ UNCHANGED notCacheVars

NextCache ==
    \/ StoreReference
    \/ GetReference
    \/ DeleteReference
    \/ WriteReferenceFile
    \/ UnlinkReferenceFile

SpecCache == Init /\ [][NextCache]_vars

----------------------------------------------------------------------------
(* estimate_token_usage applied: the session is built a turn at a time *)

\* a turn is appended to a branch of the session to estimate
TokenAddTurn ==
    /\ \E b \in 1..2, turn \in TextTurns :
         /\ Len(tok_session.branches[b].turns)
              < (IF tok_session.branches[b].branch_id = tok_session.active_branch_id
                 THEN MaxActiveTurns ELSE MaxOtherTurns)
         /\ tok_session' = [tok_session EXCEPT !.branches[b].turns = Append(@, turn)]
    /\ tok_result' = None
    /\ UNCHANGED notTokenVars

\* the session to estimate is of another model or has another active
\* branch id, possibly one no branch carries
TokenSelect ==
    /\ \E m \in TokenModelIds, a \in {"main", "branch-1", UnknownBranchId} :
         /\ (m # tok_session.model_id \/ a # tok_session.active_branch_id)
         /\ \A b \in 1..2 :
               Len(tok_session.branches[b].turns)
                 <= (IF tok_session.branches[b].branch_id = a
                     THEN MaxActiveTurns ELSE MaxOtherTurns)
         /\ tok_session' = [tok_session EXCEPT !.model_id = m, !.active_branch_id = a]
    /\ tok_result' = None
    /\ UNCHANGED notTokenVars

\* estimate_token_usage(session)
TokenEstimate ==
    /\ IsNone(tok_result)
    /\ tok_result' = Some(estimate_token_usage(tok_session))
    /\ UNCHANGED tok_session
    /\ UNCHANGED notTokenVars

NextTokens ==
    \/ TokenAddTurn
    \/ TokenSelect
    \/ TokenEstimate

SpecTokens == Init /\ [][NextTokens]_vars

----------------------------------------------------------------------------
(* compress_for_size_limit applied to an image and a budget *)

\* another image is to be compressed: one step's encoding has another length
CompressImage ==
    /\ \E step \in 1..Len(Ladder), n \in EncodedLengths :
         /\ n # cmp_image[step]
         /\ cmp_image' = [cmp_image EXCEPT ![step] = n]
    /\ cmp_result' = None
    /\ UNCHANGED cmp_budget
    /\ UNCHANGED notCompressVars

\* another budget
CompressBudget ==
    /\ \E b \in Budgets :
         /\ b # cmp_budget
         /\ cmp_budget' = b
    /\ cmp_result' = None
    /\ UNCHANGED cmp_image
    /\ UNCHANGED notCompressVars

\* compress_for_size_limit(image_bytes, per_image_budget)
CompressApply ==
    /\ IsNone(cmp_result)
    /\ cmp_result' = Some(compress_for_size_limit(cmp_image, cmp_budget))
    /\ UNCHANGED <<cmp_image, cmp_budget>>
    /\ UNCHANGED notCompressVars

NextCompress ==
    \/ CompressImage
    \/ CompressBudget
    \/ CompressApply

SpecCompress == Init /\ [][NextCompress]_vars

----------------------------------------------------------------------------
(* build_conversation_messages applied: the session is built a turn at a time *)

\* a turn is appended to a branch of the session given
MessagesAddTurn ==
    /\ \E b \in 1..2, turn \in MessageTurns :
         /\ Len(msg_session.branches[b].turns)
              < (IF msg_session.branches[b].branch_id = msg_session.active_branch_id
                 THEN MaxActiveTurns ELSE MaxOtherTurns)
         /\ msg_session' = [msg_session EXCEPT !.branches[b].turns = Append(@, turn)]
    /\ msg_result' = None
    /\ UNCHANGED notMessageVars

\* the session given has another active branch id, possibly one no branch carries
MessagesSelect ==
    /\ \E a \in {"main", "branch-1", UnknownBranchId} :
         /\ a # msg_session.active_branch_id
         /\ \A b \in 1..2 :
               Len(msg_session.branches[b].turns)
                 <= (IF msg_session.branches[b].branch_id = a
                     THEN MaxActiveTurns ELSE MaxOtherTurns)
         /\ msg_session' = [msg_session EXCEPT !.active_branch_id = a]
    /\ msg_result' = None
    /\ UNCHANGED notMessageVars

\* build_conversation_messages(session)
MessagesBuild ==
    /\ IsNone(msg_result)
    /\ msg_result' = Some(build_conversation_messages(msg_session))
    /\ UNCHANGED msg_session
    /\ UNCHANGED notMessageVars

NextMessages ==
    \/ MessagesAddTurn
    \/ MessagesSelect
    \/ MessagesBuild

SpecMessages == Init /\ [][NextMessages]_vars

----------------------------------------------------------------------------
(* The request size limit applied: the payload is built a part at a time *)

\* a reference image is added to the content of the user message
PayloadAddImage ==
    /\ Len(pay_payload.images) < MaxImages
    /\ \E image \in PayloadImages :
         pay_payload' = [pay_payload EXCEPT !.images = Append(@, image)]
    /\ pay_result' = None
    /\ UNCHANGED pay_limit
    /\ UNCHANGED notPayloadVars

\* another prompt or history, another model
PayloadSelect ==
    /\ \E t \in TextBytes, l \in RequestLimits :
         /\ <<t, l>> # <<pay_payload.text_bytes, pay_limit>>
         /\ pay_payload' = [pay_payload EXCEPT !.text_bytes = t]
         /\ pay_limit' = l
    /\ pay_result' = None
    /\ UNCHANGED notPayloadVars

\* generate_image from the size limit to its first client.post
PayloadSend ==
    /\ IsNone(pay_result)
    /\ pay_result' = Some(EnforceSizeLimit(pay_limit, pay_payload))
    /\ UNCHANGED <<pay_limit, pay_payload>>
    /\ UNCHANGED notPayloadVars

NextPayload ==
    \/ PayloadAddImage
    \/ PayloadSelect
    \/ PayloadSend

SpecPayload == Init /\ [][NextPayload]_vars

----------------------------------------------------------------------------
(* Properties of the Session/Branch Engine *)

ActiveResolves(s) ==
    \E i \in 1..Len(s.branches) : s.branches[i].branch_id = s.active_branch_id

BranchIds(s) == { s.branches[i].branch_id : i \in 1..Len(s.branches) }

\* the turns of the active branch before / after the last handler
PreTurns == ActiveTurns(Val(last.pre))
PostTurns == ActiveTurns(Val(session))

\* the last handler changed nothing: the object it loaded is as loaded and
\* the persisted document (updated_at included) is the one it found
NothingChanged ==
    /\ session = last.pre
    /\ disk = last.pre_disk

\* C1: after any sequence of engine operations, active_branch_id is the
\* branch_id of some element of session.branches: in the object every
\* handler worked on and in the persisted document.
C1_ActiveBranchResolves ==
    /\ ~IsNone(session) => ActiveResolves(Val(session))
    /\ ~IsNone(editSession) => ActiveResolves(Val(editSession))
    /\ ~IsNone(disk) => ActiveResolves(Val(load_session(disk)))

\* C1 witness: a switch to an unknown branch id was refused in a session
\* that holds a fork and whose active branch is that fork.
C1_Witness ==
    /\ last.op = "switch"
    /\ last.branch_id = UnknownBranchId
    /\ last.ret = "False"
    /\ Len(Val(session).branches) >= 2
    /\ Val(session).active_branch_id # "main"

\* C2: branch_from_turn with 0 <= i < len(turns of the active branch)
\* appends one branch to session.branches (the others untouched) whose
\* turns are turns[0..i] of the previously active branch, whose parent is
\* the previously active branch and fork_turn_index is i, whose name is
\* branch-<number of branches before the call>, and makes it active; the
\* result is persisted.
C2_BranchFromTurnValid ==
    (last.op = "branch" /\ ~IsNone(last.pre) /\ last.index >= 0 /\ last.index < Len(PreTurns)) =>
        LET pre  == Val(last.pre)
            post == Val(session)
            n    == Len(pre.branches)
        IN  /\ last.ret # "ValueError"
            /\ Len(post.branches) = n + 1
            /\ SubSeq(post.branches, 1, n) = pre.branches
            /\ post.branches[n + 1].turns = SubSeq(PreTurns, 1, last.index + 1)
            /\ post.branches[n + 1].parent_branch_id = Some(pre.active_branch_id)
            /\ post.branches[n + 1].fork_turn_index = Some(last.index)
            /\ post.branches[n + 1].name = "branch-" \o ToString(n)
            /\ post.branches[n + 1].branch_id = last.ret
            /\ post.branches[n + 1].branch_id \notin BranchIds(pre)
            /\ post.active_branch_id = post.branches[n + 1].branch_id
            /\ disk = Document(post)

\* C2 witness: a fork taken from a turn that is not the last one, in a
\* session that already holds a fork.
C2_Witness ==
    /\ last.op = "branch"
    /\ ~IsNone(last.pre)
    /\ last.ret # "ValueError"
    /\ last.index + 1 < Len(PreTurns)
    /\ Len(Val(session).branches) = 3

\* C3 as stated: on an active branch with turns [t0..tn], branch_from_turn
\* with i >= n or i < 0 raises and mutates nothing.
C3_Original ==
    (last.op = "branch" /\ ~IsNone(last.pre) /\ PreTurns # <<>>
        /\ (last.index >= Len(PreTurns) - 1 \/ last.index < 0)) =>
        (last.ret = "ValueError" /\ NothingChanged)

\* C3 as amended: on an active branch with turns [t0..tn] (or with no
\* turns), branch_from_turn with i > n or i < 0 raises ValueError (answered
\* as HTTP 400) and mutates nothing: branches, turns, active_branch_id and
\* the persisted document are unchanged.  i = n is a valid index.
C3_BranchFromTurnInvalid ==
    (last.op = "branch" /\ ~IsNone(last.pre)
        /\ (last.index >= Len(PreTurns) \/ last.index < 0)) =>
        (last.ret = "ValueError" /\ NothingChanged)

\* C3 witness: an index one past the last turn of a non-empty branch was refused.
C3_Witness ==
    /\ last.op = "branch"
    /\ ~IsNone(last.pre)
    /\ PreTurns # <<>>
    /\ last.index = Len(PreTurns)
    /\ last.ret = "ValueError"

\* C4: undo_turn on an active branch without turns returns False and changes
\* nothing (object and persisted document, updated_at included); on turns
\* [t0..tn] it returns True and leaves [t0..t(n-1)], persisted.
C4_UndoTurn ==
    (last.op = "undo" /\ ~IsNone(last.pre)) =>
        IF PreTurns = <<>>
        THEN last.ret = "False" /\ NothingChanged
        ELSE /\ last.ret = "True"
             /\ PostTurns = SubSeq(PreTurns, 1, Len(PreTurns) - 1)
             /\ disk = Document(Val(session))
             /\ ActiveTurns(Val(load_session(disk))) = SubSeq(PreTurns, 1, Len(PreTurns) - 1)

\* C4 witness: an undo that removed the newest of at least two turns.
C4_Witness ==
    /\ last.op = "undo"
    /\ last.ret = "True"
    /\ Len(PreTurns) >= 2
    /\ Len(PostTurns) = Len(PreTurns) - 1

\* C5: revert_to_turn(s, i) on [t0..tn] with 0 <= i <= n returns True and
\* leaves [t0..ti], persisted; with i < 0 or i > n it returns False and
\* changes nothing in the object or the persisted document.
C5_RevertToTurn ==
    (last.op = "revert" /\ ~IsNone(last.pre)) =>
        IF last.index >= 0 /\ last.index <= Len(PreTurns) - 1
        THEN /\ last.ret = "True"
             /\ PostTurns = SubSeq(PreTurns, 1, last.index + 1)
             /\ disk = Document(Val(session))
             /\ ActiveTurns(Val(load_session(disk))) = SubSeq(PreTurns, 1, last.index + 1)
        ELSE last.ret = "False" /\ NothingChanged

\* C5 witness: a revert that cut at least one turn off and kept at least one.
C5_Witness ==
    /\ last.op = "revert"
    /\ last.ret = "True"
    /\ last.index + 1 < Len(PreTurns)
    /\ Len(PostTurns) = last.index + 1

\* C6: when a conversation_edit request ends in failure inside its try block
\* (generate_image raised, or a later step raised), the active branch of the
\* request's session object and of the persisted document holds exactly the
\* turns it held when the request loaded the session.
C6_EditFailureRollsBack ==
    (last.op = "edit" /\ last.ret \in {"422", "500"}) =>
        /\ ActiveTurns(Val(editSession)) = editPre
        /\ ActiveTurns(Val(load_session(disk))) = editPre

\* the lock fields of a session agree: not locked, no locked image
LockAgrees(s) == IsNone(s) \/ Val(s).subject_locked \/ IsNone(Val(s).subject_lock_image_id)

\* C22: set_subject_lock with locked = False leaves subject_lock_image_id
\* None whatever image_id it is given; and in the document on disk and in
\* every session object a handler holds, subject_locked = False implies
\* subject_lock_image_id is None.
C22_UnlockClearsImage ==
    /\ (last.op = "unlock" /\ last.ret # "404") =>
          /\ ~Val(session).subject_locked
          /\ IsNone(Val(session).subject_lock_image_id)
          /\ ~Val(load_session(disk)).subject_locked
          /\ IsNone(Val(load_session(disk)).subject_lock_image_id)
    /\ LockAgrees(session)
    /\ LockAgrees(load_session(disk))
    /\ LockAgrees(editSession)

\* C22 witness: a session locked on an image was unlocked by a call that
\* passed an image id
C22_Witness ==
    /\ last.op = "unlock"
    /\ last.detail = "img-locked"
    /\ Val(last.pre).subject_locked
    /\ Val(last.pre).subject_lock_image_id = Some("img-locked")
    /\ ~Val(load_session(disk)).subject_locked
    /\ IsNone(Val(load_session(disk)).subject_lock_image_id)

\* C23: switch_branch to the id of a branch of the session returns True and
\* makes that id the active one, in the object and in the saved document,
\* with the list of branches and every branch's turns as they were; with an
\* id no branch has it returns False and the active id and the persisted
\* document stay as they were.
C23_SwitchBranchFrame ==
    (last.op = "switch" /\ last.ret # "404") =>
        IF last.branch_id \in BranchIds(Val(last.pre))
        THEN /\ last.ret = "True"
             /\ Val(session).active_branch_id = last.branch_id
             /\ Val(session).branches = Val(last.pre).branches
             /\ load_session(disk) = session
             /\ \E t \in 0..MaxOps :
                   Val(session) = [Val(last.pre) EXCEPT !.active_branch_id = last.branch_id,
                                                        !.updated_at = isoformat(t)]
        ELSE /\ last.ret = "False"
             /\ Val(session).active_branch_id = Val(last.pre).active_branch_id
             /\ NothingChanged

\* C23 witness: the session has two branches with turns and the switch went
\* from the fork back to the branch it was forked from
C23_Witness ==
    /\ last.op = "switch"
    /\ last.ret = "True"
    /\ Len(Val(last.pre).branches) = 2
    /\ Val(last.pre).active_branch_id # last.branch_id
    /\ last.branch_id = "main"
    /\ ActiveTurns(Val(session)) # <<>>
    /\ Val(session).active_branch_id = "main"

\* from session a to session b the list of branches, the active id and every
\* branch but the active one are the same, and the active branch differs in
\* its turns at most
OnlyActiveTurnsDiffer(a, b) ==
    /\ b.active_branch_id = a.active_branch_id
    /\ Len(b.branches) = Len(a.branches)
    /\ \A i \in 1..Len(a.branches) :
          IF i = get_active_branch(a)
          THEN b.branches[i] = [a.branches[i] EXCEPT !.turns = b.branches[i].turns]
          ELSE b.branches[i] = a.branches[i]

\* b's active branch is a's with exactly one turn more at its end
OneTurnAppended(a, b) ==
    /\ Len(ActiveTurns(b)) = Len(ActiveTurns(a)) + 1
    /\ SubSeq(ActiveTurns(b), 1, Len(ActiveTurns(a))) = ActiveTurns(a)

\* the handlers that load the session, call add_turn, undo_turn or
\* revert_to_turn once and answer
EngineCallFrame ==
    (last.op \in {"add", "undo", "revert"} /\ last.ret # "404") =>
        /\ OnlyActiveTurnsDiffer(Val(last.pre), Val(session))
        /\ last.op = "add" =>
              /\ OneTurnAppended(Val(last.pre), Val(session))
              /\ ActiveTurns(Val(session))[Len(ActiveTurns(Val(session)))].turn_id = last.ret
              /\ load_session(disk) = session

\* a step of conversation_edit: its add_turn and undo_turn calls work on the
\* object it loaded (EditBegin) or still holds (EditResume)
EditCallFrame ==
    (editSession' # editSession) =>
        LET given == IF editPc = "idle" THEN Val(load_session(disk)) ELSE Val(editSession) IN
        /\ OnlyActiveTurnsDiffer(given, Val(editSession'))
        /\ last'.op = "edit_begin" =>
              /\ OneTurnAppended(given, Val(editSession'))
              /\ load_session(disk') = editSession'
        /\ (last'.op = "edit" /\ last'.ret = "200") =>
              /\ OneTurnAppended(given, Val(editSession'))
              /\ load_session(disk') = editSession'

\* C24: add_turn appends exactly one turn at the end of the active branch
\* and saves; add_turn, undo_turn and revert_to_turn leave the list of
\* branches, the active id and every branch other than the active one as
\* they were in the session they were given.
C24_OnlyActiveBranchChanges == [][EngineCallFrame' /\ EditCallFrame]_vars

\* C24 witness: a turn was added to a fork; its parent, which has turns,
\* kept them
C24_Witness ==
    /\ last.op = "add"
    /\ Len(Val(last.pre).branches) = 2
    /\ Val(session).active_branch_id # "main"
    /\ Val(session).branches[2].parent_branch_id = Some("main")
    /\ Val(session).branches[1].turns # <<>>
    /\ Val(session).branches[1] = Val(last.pre).branches[1]
    /\ Len(Val(session).branches[2].turns) = Len(Val(last.pre).branches[2].turns) + 1

\* what the document holds besides the turns of its active branch: the
\* branches by id, the active id and the subject lock
Selectors(s) ==
    [branch_ids            |-> BranchIds(s),
     active_branch_id      |-> s.active_branch_id,
     subject_locked        |-> s.subject_locked,
     subject_lock_image_id |-> s.subject_lock_image_id]

\* C26: no update is lost between overlapping requests on a session: when
\* conversation_edit saves after its await, the document still holds what
\* the requests that finished in the meantime wrote (the branches they
\* created, the active branch and the subject lock they set), together with
\* the edit's own turn.
C26_NoLostUpdate ==
    [][(editPc = "generating" /\ editPc' = "idle" /\ last'.ret = "200") =>
         /\ Selectors(Val(load_session(disk'))) = Selectors(Val(load_session(disk)))
         /\ \A i \in 1..Len(Val(load_session(disk)).branches) :
               i # get_active_branch(Val(load_session(disk))) =>
                   Val(load_session(disk')).branches[i] = Val(load_session(disk)).branches[i]]_vars

----------------------------------------------------------------------------
(* Properties of the persistence *)

\* the session object the last handler saved
SavedSession == IF last.op \in {"edit", "edit_begin"} THEN editSession ELSE session

\* C16: whenever a handler has saved a session, loading the session's file
\* gives a session equal to the saved one: same active branch id, same
\* subject lock state and image id, same branches with the same turns, every
\* field of every turn included.
C16_SaveLoadRoundTrip ==
    last.saved =>
        /\ ~IsNone(load_session(disk))
        /\ load_session(disk) = SavedSession

\* a saved session that is subject locked and holds a branch forked at turn
\* 0 and a turn with usage figures
C16_Witness ==
    /\ last.saved
    /\ ~IsNone(SavedSession)
    /\ Val(SavedSession).subject_locked
    /\ ~IsNone(Val(SavedSession).subject_lock_image_id)
    /\ \E i \in 1..Len(Val(SavedSession).branches) :
          LET b == Val(SavedSession).branches[i] IN
          /\ b.fork_turn_index = Some(0)
          /\ \E k \in 1..Len(b.turns) : ~IsNone(b.turns[k].usage)
    /\ load_session(disk) = SavedSession

\* the file holds the whole document of a session
Complete(file) ==
    /\ ~IsNone(file)
    /\ ~IsNone(load_session(file))
    /\ file = Document(Val(load_session(file)))

\* the handler that ran was one of the mutating engine operations and the
\* operation took effect
Mutated(l) ==
    \/ l.op \in {"create", "edit_begin"}
    \/ l.op = "edit" /\ l.ret = "200"
    \/ l.op \in {"add", "branch", "lock", "unlock"} /\ l.ret \notin {"404", "ValueError"}
    \/ l.op \in {"undo", "revert", "switch"} /\ l.ret = "True"

\* C37: after every engine operation that mutates a session (create, add a
\* turn, undo and revert and switch returning true, branch, subject lock)
\* the session's file holds the document of the complete session object the
\* operation worked on; and in every step, a save that does not complete
\* included, the file is afterwards either what it was, or absent (deleted),
\* or a complete document: never a part of one.
C37_DocumentWholeAndCurrent ==
    [][/\ Mutated(last') =>
            /\ last'.saved
            /\ disk' = Document(Val(IF last'.op \in {"edit", "edit_begin"}
                                     THEN editSession' ELSE session'))
       /\ \/ IsNone(disk')
          \/ Complete(disk')]_vars

\* C37 witness: a switch to another branch was saved over the document of
\* a session with two branches; the file is the document of the session
\* object as the switch left it
C37_Witness ==
    /\ last.op = "switch"
    /\ last.ret = "True"
    /\ ~IsNone(last.pre)
    /\ Val(last.pre).active_branch_id # Val(session).active_branch_id
    /\ disk # last.pre_disk
    /\ disk = Document(Val(session))

\* C39: once delete_session has removed a session's document the session
\* stays deleted: no handler that loaded the session before (a
\* conversation_edit waiting for the provider, its rollback) writes the
\* document again.
C39_DeletedStaysDeleted ==
    \A id \in deleted :
        IsNone(load_session(disk)) \/ Val(load_session(disk)).session_id # id

----------------------------------------------------------------------------
(* Properties of estimate_token_usage *)

\* the characters of the prompts and text responses of the branch whose id
\* is the active id
ActiveChars ==
    LET mine == { b \in 1..2 : tok_session.branches[b].branch_id = tok_session.active_branch_id }
        turns == tok_session.branches[CHOOSE b \in mine : TRUE].turns
    IN total_chars(turns)

\* C17: for a session with an active branch the limit is 128000 whatever the
\* model, and near_limit is true from 409600 characters of the active
\* branch's prompts and text responses on (true at 409600, false at 409599),
\* whatever the other branch holds.
C17_NearLimitAt409600 ==
    (~IsNone(tok_result) /\ tok_session.active_branch_id # UnknownBranchId) =>
        /\ Val(tok_result).context_limit = 128000
        /\ (ActiveChars = 409600 => Val(tok_result).near_limit)
        /\ (ActiveChars = 409599 => ~Val(tok_result).near_limit)
        /\ Val(tok_result).near_limit <=> (ActiveChars >= 409600)

\* exactly 409600 characters in two turns of the active branch, a model
\* without a declared limit, the other branch not empty
C17_Witness ==
    /\ ~IsNone(tok_result)
    /\ tok_session.active_branch_id = "branch-1"
    /\ tok_session.model_id = "black-forest-labs/flux.2-max"
    /\ ActiveChars = 409600
    /\ Len(tok_session.branches[2].turns) = 2
    /\ tok_session.branches[1].turns # <<>>
    /\ Val(tok_result).near_limit
    /\ Val(tok_result).estimated_tokens = 102400

----------------------------------------------------------------------------
(* Properties of build_conversation_messages *)

\* the turns of the branch whose id is the active id, none without such a branch
GivenTurns ==
    LET mine == { b \in 1..2 : msg_session.branches[b].branch_id = msg_session.active_branch_id }
    IN IF mine = {} THEN <<>> ELSE msg_session.branches[CHOOSE b \in mine : TRUE].turns

\* the turn yields a message
Speaks(turn) ==
    \/ turn.role = "assistant"
    \/ turn.role = "user" /\ turn.prompt \notin {None, Some("")}

\* C25: the list returned has, in the order of the active branch's turns,
\* one message per user turn with a non-empty prompt (its content the one
\* text part with that prompt) and one per assistant turn (its content the
\* text response, "" without one), and nothing else: no message for a user
\* turn without prompt or with the empty one, none for another branch's turns.
C25_MessagesOfActiveBranch ==
    ~IsNone(msg_result) =>
        LET spoken == SelectSeq(GivenTurns, Speaks)
            result == Val(msg_result)
        IN /\ Len(result) = Len(spoken)
           /\ \A i \in 1..Len(spoken) :
                 /\ result[i][2].role = JsonString(spoken[i].role)
                 /\ spoken[i].role = "user" =>
                       result[i][2].content =
                           JsonArray(<< JsonObject([type |-> JsonString("text"),
                                                    text |-> JsonString(Val(spoken[i].prompt))]) >>)
                 /\ spoken[i].role = "assistant" =>
                       result[i][2].content =
                           JsonString(IF spoken[i].text_response = None THEN ""
                                      ELSE Val(spoken[i].text_response))

\* C25 witness: the active branch holds a user turn with the empty prompt
\* and then an assistant turn without text response, the other branch a
\* user turn with a prompt: one message, of the assistant, with content ""
C25_Witness ==
    /\ ~IsNone(msg_result)
    /\ msg_session.active_branch_id = "branch-1"
    /\ Len(msg_session.branches[2].turns) = 2
    /\ msg_session.branches[2].turns[1] = [role |-> "user", prompt |-> Some(""), text_response |-> None]
    /\ msg_session.branches[2].turns[2].role = "assistant"
    /\ msg_session.branches[2].turns[2].text_response = None
    /\ Len(msg_session.branches[1].turns) = 1
    /\ msg_session.branches[1].turns[1].prompt = Some("make it red")
    /\ Len(Val(msg_result)) = 1
    /\ Val(msg_result)[1][2].content = JsonString("")

----------------------------------------------------------------------------
(* Properties of compress_for_size_limit *)

\* the steps of the ladder whose encoding of the image, inflated by 4/3,
\* is within the budget
FittingSteps ==
    { step \in 1..Len(Ladder) : (cmp_image[step] * 4) \div 3 <= cmp_budget }

FirstFittingStep == CHOOSE step \in FittingSteps : \A other \in FittingSteps : step <= other

\* C18: the ladder is quality 85, 70, 55, 40 at full size, then 75% and 50%
\* at quality 40; the result is the encoding of the first step whose
\* 4/3-inflated length is within the budget (the 50% one when only that
\* fits), and the size-limit error exactly when no step fits.
C18_FirstFittingEncoding ==
    /\ Ladder = << [quality |-> 85, scale |-> 100], [quality |-> 70, scale |-> 100],
                   [quality |-> 55, scale |-> 100], [quality |-> 40, scale |-> 100],
                   [quality |-> 40, scale |-> 75],  [quality |-> 40, scale |-> 50] >>
    /\ ~IsNone(cmp_result) =>
         /\ (Val(cmp_result).ret = "ValueError") <=> (FittingSteps = {})
         /\ FittingSteps # {} =>
              /\ Val(cmp_result).ret = "bytes"
              /\ Val(cmp_result).raw =
                    Some([quality |-> Ladder[FirstFittingStep].quality,
                          scale   |-> Ladder[FirstFittingStep].scale,
                          len     |-> cmp_image[FirstFittingStep]])
         /\ FittingSteps = {6} =>
              Val(Val(cmp_result).raw) = [quality |-> 40, scale |-> 50, len |-> cmp_image[6]]

\* nothing fits but the 50% downscale, by the inflation alone at full size
C18_Witness ==
    /\ ~IsNone(cmp_result)
    /\ cmp_budget = 8
    /\ cmp_image[4] = 7
    /\ FittingSteps = {6}
    /\ Val(cmp_result).ret = "bytes"
    /\ Val(Val(cmp_result).raw).scale = 50

----------------------------------------------------------------------------
(* Properties of the Generation Client *)

Transient(resp) == resp.exc = "" /\ resp.status \in {429, 500, 502, 503}

ServerError5xx(resp) == resp.exc = "" /\ resp.status \in {500, 502, 503}

\* the i-th response was followed by a backoff sleep or a further attempt
FollowedByRetry(i) == i < calls \/ (i = Len(responses) /\ gpc \in {"sleep", "check"})

\* C7: when every attempt is answered 500, 502 or 503 and the event is never
\* set, generate_image makes exactly 3 client.post calls, sleeps 2 s and
\* then 4 s between them, and raises OpenRouterError("server"); it never
\* makes a 4th call.
C7_RetriesOnServerErrors ==
    /\ calls <= MAX_RETRIES
    /\ (gpc = "done" /\ cancel_at = NotCancelled /\ responses # <<>>
          /\ \A i \in 1..Len(responses) : ServerError5xx(responses[i])) =>
         /\ calls = 3
         /\ Len(responses) = 3
         /\ sleeps = <<2, 4>>
         /\ ~Val(outcome).ok
         /\ Val(outcome).error_type = "server"

\* C7 witness: three 503 answers in a row, no cancellation, the call has ended.
C7_Witness ==
    /\ gpc = "done"
    /\ cancel_at = NotCancelled
    /\ Len(responses) = 3
    /\ \A i \in 1..3 : responses[i].exc = "" /\ responses[i].status = 503
    /\ Val(outcome).error_type = "server"

\* C8: a non-transient failure ends generate_image at once: only a 429,
\* 500, 502 or 503 answer is ever followed by a backoff sleep or another
\* attempt; a 401 raises "auth" and a 402 raises "credits", with no sleep
\* after it, and as the first answer after exactly one client.post call.
C8_NoRetryOnNonTransient ==
    /\ \A i \in 1..Len(responses) : FollowedByRetry(i) => Transient(responses[i])
    /\ (gpc = "done" /\ responses # <<>> /\ responses[Len(responses)].status \in {401, 402}) =>
         /\ Val(outcome) = IF responses[Len(responses)].status = 401
                           THEN OpenRouterError("auth", "Invalid API key. Update it in Settings.", None)
                           ELSE OpenRouterError("credits", "Insufficient credits. Add credits at openrouter.ai.", None)
         /\ calls = Len(responses)
         /\ Len(sleeps) = Len(responses) - 1
    /\ (responses # <<>> /\ ~Transient(responses[1])) =>
         (gpc = "done" /\ calls = 1 /\ sleeps = <<>>)

\* C8 witness: the first answer was a 401 and the call ended with "auth".
C8_Witness ==
    /\ gpc = "done"
    /\ Len(responses) = 1
    /\ responses[1].status = 401
    /\ Val(outcome).error_type = "auth"
    /\ calls = 1
    /\ sleeps = <<>>

\* C9: once the event is set during a backoff sleep, the sleep lasts no
\* second longer, no further client.post call is started, and generate_image
\* ends with the cancellation error ("Generation cancelled by user").
C9_CancelDuringBackoff ==
    cancel_at.pc = "sleep" =>
        /\ calls = cancel_at.calls
        /\ gpc # "inflight"
        /\ gpc = "sleep" => elapsed = cancel_at.elapsed
        /\ gpc = "done" =>
             /\ outcome = Some(CancelledError)
             /\ sleeps[Len(sleeps)] = cancel_at.elapsed

\* C9 witness: the event was set one second into the 4 s backoff after the
\* second attempt, and the call ended cancelled having slept that one second.
C9_Witness ==
    /\ gpc = "done"
    /\ cancel_at.pc = "sleep"
    /\ cancel_at.elapsed = 1
    /\ backoff = 4
    /\ sleeps = <<2, 1>>
    /\ outcome = Some(CancelledError)

\* C10 as stated: with the event set at the head of the retry loop,
\* generate_image raises an error of kind "cancelled" and starts no call.
C10_Original ==
    [][(gpc = "check" /\ attempt < MAX_RETRIES /\ cancel_event) =>
         (gpc' = "done" /\ calls' = calls /\ Val(outcome').error_type = "cancelled")]_vars

\* C10 as amended: with the event set at the head of the retry loop (first
\* attempt or a retry), generate_image at once raises
\* OpenRouterError("timeout", "Generation cancelled by user") and starts no
\* client.post call for that attempt.
C10_CancelBeforeAttempt ==
    [][(gpc = "check" /\ attempt < MAX_RETRIES /\ cancel_event) =>
         (gpc' = "done" /\ calls' = calls /\ outcome' = Some(CancelledError)
            /\ Val(outcome').error_type = "timeout")]_vars

\* C10 witness: the event was already set when generate_image was called;
\* the call ended cancelled without any client.post call.
C10_Witness ==
    /\ gpc = "done"
    /\ cancel_at.pc = "before"
    /\ greq.api_key
    /\ greq.model_id \in MODELS
    /\ calls = 0
    /\ outcome = Some(CancelledError)

BadRequest(resp) == resp.exc = "" /\ resp.status = 400

TooLarge(resp) == resp.exc = "" /\ resp.status = 413

\* C19 as stated: a 400 without safety or policy wording ends the call with
\* kind "invalid_request", a 413 with kind "payload_too_large", a 400 with
\* such wording with "content_policy".
C19_Original ==
    (gpc = "done" /\ responses # <<>>) =>
        LET resp == responses[Len(responses)] IN
        /\ (BadRequest(resp) /\ resp.error_msg \notin PolicyWording) =>
              Val(outcome).error_type = "invalid_request"
        /\ TooLarge(resp) => Val(outcome).error_type = "payload_too_large"
        /\ (BadRequest(resp) /\ resp.error_msg \in PolicyWording) =>
              Val(outcome).error_type = "content_policy"

\* C19: a 400 whose lower-cased message contains none of "safety",
\* "content", "policy" ends the call with OpenRouterError("server",
\* "Bad request: <message>"), a 413 with OpenRouterError("server",
\* "Request too large. ..."), a 400 whose message contains one of the three
\* words with "content_policy"; none of them is retried.
C19_BadRequestAndTooLargeAreServer ==
    /\ \A i \in 1..Len(responses) :
         (BadRequest(responses[i]) \/ TooLarge(responses[i])) =>
             (i = Len(responses) /\ gpc = "done")
    /\ (gpc = "done" /\ responses # <<>>) =>
         LET resp == responses[Len(responses)] IN
         /\ (BadRequest(resp) /\ resp.error_msg \notin PolicyWording) =>
               outcome = Some(OpenRouterError("server", "Bad request: " \o resp.error_msg, None))
         /\ TooLarge(resp) =>
               outcome = Some(OpenRouterError("server",
                             "Request too large. Try a shorter prompt or smaller image.", None))
         /\ (BadRequest(resp) /\ resp.error_msg \in PolicyWording) =>
               /\ Val(outcome).error_type = "content_policy"
               /\ ~Val(outcome).ok
         /\ (BadRequest(resp) /\ resp.error_msg = "Unsupported Content-Type") =>
               Val(outcome).error_type = "content_policy"

\* C19 witness: a 413 after a retried 503 ended the call with kind "server"
C19_Witness ==
    /\ gpc = "done"
    /\ Len(responses) = 2
    /\ responses[1].status = 503
    /\ TooLarge(responses[2])
    /\ Val(outcome).error_type = "server"
    /\ sleeps = <<2>>

\* C20 as stated: generate_image called with a model_id that is not a key
\* of MODELS raises an error of kind "invalid_argument" without any
\* client.post call.
C20_Original ==
    (gpc # "idle" /\ greq.model_id \notin MODELS) =>
        /\ gpc = "done"
        /\ calls = 0
        /\ Val(outcome).error_type = "invalid_argument"

\* C20 as amended: generate_image called with a model_id that is not a key
\* of MODELS raises OpenRouterError("server", "Unknown model: <model_id>"),
\* or OpenRouterError("auth", "No API key configured") when no API key is
\* configured, and in both cases before any client.post call.
C20_UnknownModelIsServer ==
    (gpc # "idle" /\ greq.model_id \notin MODELS) =>
        /\ gpc = "done"
        /\ calls = 0
        /\ responses = <<>>
        /\ sleeps = <<>>
        /\ outcome = Some(IF greq.api_key
                          THEN OpenRouterError("server", "Unknown model: " \o greq.model_id, None)
                          ELSE OpenRouterError("auth", "No API key configured", None))

\* C20 witness: with an API key configured, a call for a model that is not
\* in MODELS has ended with kind "server" and no client.post call.
C20_Witness ==
    /\ gpc = "done"
    /\ greq.api_key
    /\ greq.model_id = "acme/no-such-model"
    /\ greq.model_id \notin MODELS
    /\ calls = 0
    /\ Val(outcome).error_type = "server"
    /\ Val(outcome).message = "Unknown model: acme/no-such-model"

\* C30: setting the event while client.post is in flight does not end the
\* call: the response is handled as without the event, a 200 is parsed and
\* returned; the event is observed only afterwards, by the backoff sleep
\* (which then lasts no second) when the response allows a retry, and no
\* further client.post call is started.
C30_InFlightCallCompletes ==
    cancel_at.pc = "inflight" =>
        /\ calls = cancel_at.calls
        /\ gpc \in {"inflight", "sleep", "done"}
        /\ gpc = "sleep" => elapsed = 0
        /\ gpc = "done" =>
             LET resp == responses[Len(responses)] IN
             /\ Len(responses) = calls
             /\ (resp.exc = "" /\ resp.status = 200) =>
                   outcome = Some(ParseResponse(resp.body, ModelType(greq.model_id)))
             /\ (resp.exc = "" /\ resp.status = 200 /\ resp.body \in {"images", "inline_image"}) =>
                   Val(outcome).ok
             /\ outcome = Some(CancelledError) =>
                   /\ Transient(resp)
                   /\ Len(sleeps) = Len(responses)
                   /\ sleeps[Len(sleeps)] = 0

\* C30 witness: the event was set during the second client.post call, which
\* then returned 200 with an image: generate_image returned the result
C30_Witness ==
    /\ gpc = "done"
    /\ cancel_at.pc = "inflight"
    /\ cancel_at.calls = 2
    /\ cancel_event
    /\ Len(responses) = 2
    /\ responses[2].status = 200
    /\ responses[2].body = "images"
    /\ Val(outcome).ok

\* C36: when client.post raises an exception generate_image has no class
\* for, the failure the caller gets is a generic server failure that does not
\* depend on the exception's text: it is the failure any other text would
\* have given.
C36_UnexpectedFailureIsGeneric ==
    (gpc = "done" /\ responses # <<>>
        /\ responses[Len(responses)].exc \in UnexpectedTexts) =>
        /\ ~IsNone(outcome)
        /\ Val(outcome).error_type = "server"
        /\ \A text \in UnexpectedTexts : Val(outcome) = UnexpectedFailure(text)

----------------------------------------------------------------------------
(* Properties of the reference cache *)

CachedIds(c) == { c[i].id : i \in 1..Len(c) }
Entries(c) == { c[i] : i \in 1..Len(c) }

\* the entry of c whose id was stored or hit least recently
LeastRecentlyUsed(c, recency) ==
    CHOOSE e \in Entries(c) :
        \A i, j \in 1..Len(recency) :
            (recency[i] = e.id /\ recency[j] \in CachedIds(c)) => i <= j

\* the entries a call leaves when it adds the entry e to the cache c
AfterInsert(c, recency, e) ==
    (IF Len(c) >= max_size THEN Entries(c) \ {LeastRecentlyUsed(c, recency)} ELSE Entries(c))
    \cup {e}

\* C14: the cache never holds more than max_size entries, its order is the
\* order in which its ids were last stored or hit; a store of a new id into a
\* full cache evicts exactly the least recently used entry, a store of a
\* cached id updates the value, makes the id most recently used and evicts
\* nothing.
C14_CacheBoundedLRU ==
    /\ Len(ref_cache) <= max_size
    /\ Cardinality(CachedIds(ref_cache)) = Len(ref_cache)
    /\ [i \in 1..Len(ref_cache) |-> ref_cache[i].id]
         = SelectSeq(ref_recency, LAMBDA id : id \in CachedIds(ref_cache))
    /\ ref_last.op = "store" =>
         LET e == [id |-> ref_last.id, data_url |-> ref_last.data_url] IN
         /\ ref_cache[Len(ref_cache)] = e
         /\ IF Cached(ref_last.pre, ref_last.id)
            THEN /\ CachedIds(ref_cache) = CachedIds(ref_last.pre)
                 /\ \A old \in Entries(ref_last.pre) :
                        old.id # ref_last.id => old \in Entries(ref_cache)
            ELSE Entries(ref_cache) = AfterInsert(ref_last.pre, ref_last.pre_recency, e)

\* a store of a new id into a full cache, which evicted an entry
C14_Witness ==
    /\ ref_last.op = "store"
    /\ ~Cached(ref_last.pre, ref_last.id)
    /\ Len(ref_last.pre) = max_size
    /\ Len(ref_cache) = max_size
    /\ ref_last.pre[1].id \notin CachedIds(ref_cache)

\* C15: get(id) on a hit returns the cached value and makes id most recently
\* used; on a miss with a file on disk it inserts the encoded file (evicting
\* the least recently used entry of a full cache) and returns it; on a miss
\* without a file it returns None and leaves entries and order as they were.
C15_GetReference ==
    ref_last.op = "get" =>
        IF Cached(ref_last.pre, ref_last.id)
        THEN /\ ref_last.ret = Some(CachedValue(ref_last.pre, ref_last.id))
             /\ Entries(ref_cache) = Entries(ref_last.pre)
             /\ ref_cache[Len(ref_cache)].id = ref_last.id
             /\ ref_recency[Len(ref_recency)] = ref_last.id
        ELSE IF ~IsNone(ref_last.file)
        THEN LET e == [id |-> ref_last.id,
                       data_url |-> image_to_base64_url(Val(ref_last.file))] IN
             /\ ref_last.ret = Some(e.data_url)
             /\ Entries(ref_cache) = AfterInsert(ref_last.pre, ref_last.pre_recency, e)
             /\ ref_cache[Len(ref_cache)] = e
        ELSE /\ ref_last.ret = None
             /\ ref_cache = ref_last.pre
             /\ ref_recency = ref_last.pre_recency

\* a get of an id that is not cached but has a file, on a full cache
C15_Witness ==
    /\ ref_last.op = "get"
    /\ ~Cached(ref_last.pre, ref_last.id)
    /\ ~IsNone(ref_last.file)
    /\ Len(ref_last.pre) = max_size
    /\ ref_last.ret = Some(image_to_base64_url(UploadedBytes(ref_last.id)))

----------------------------------------------------------------------------
(* Properties of POST /generate *)

\* a request of more than one variation that passed the API key and model checks
IsBatch(r) ==
    /\ hreq[r].api_key
    /\ hreq[r].model_id \in MODELS
    /\ ClampVariations(hreq[r].variations) > 1

RECURSIVE JoinVariations(_, _)
\* "; ".join of "Variation k: <message>" for k = 1..n
JoinVariations(n, message) ==
    IF n = 0 THEN ""
    ELSE (IF n = 1 THEN "" ELSE JoinVariations(n - 1, message) \o "; ")
         \o "Variation " \o ToString(n) \o ": " \o message

\* C11: a batch of 4 whose variation 2 is rate limited once (retry_after 10)
\* and served on its retry, every other call being served, ends with all 4
\* results in completed (having waited at least 10 s before variation 3).
C11_StaggerFollowsRetryAfter ==
    \A r \in Requests :
        (/\ hpc[r] = "done"
         /\ IsBatch(r)
         /\ ClampVariations(hreq[r].variations) = 4
         /\ hreq[r].provider = "second call rate limited")
        => /\ Val(hresp[r]).http = "200"
           /\ Val(hresp[r]).total_completed = 4
           /\ Len(Val(hresp[r]).results) = 4

\* C12: a batch of N variations in which every variation fails ends with the
\* call failing, and the failure message lists the error of each of the N
\* variations, one entry per variation.
C12_AllFailAggregates ==
    \A r \in Requests :
        (/\ hpc[r] = "done"
         /\ IsBatch(r)
         /\ hreq[r].provider = "never served")
        => /\ Val(hresp[r]).http = "422"
           /\ Val(hresp[r]).message =
                "All variations failed. "
                \o JoinVariations(ClampVariations(hreq[r].variations), InvalidKey.message)

\* C13: a batch fails only when no variation completed: a batch whose first
\* variation is served at its first attempt answers with the completed
\* results, whatever happens to the other variations.
C13_FailsOnlyWhenNoneCompleted ==
    \A r \in Requests :
        (/\ hpc[r] = "done"
         /\ IsBatch(r)
         /\ Provider(hreq[r].provider, 1).ok)
        => /\ Val(hresp[r]).http = "200"
           /\ Val(hresp[r]).total_completed >= 1
           /\ Val(hresp[r]).total_completed = Len(Val(hresp[r]).results)

\* the body of the request carries a list under "model_ids" that is not one
\* known model id per variation
BadModelIds(r) ==
    /\ ~IsNone(hreq[r].body_model_ids)
    /\ \/ Len(Val(hreq[r].body_model_ids)) # ClampVariations(hreq[r].variations)
       \/ \E i \in 1..Len(Val(hreq[r].body_model_ids)) :
             Val(hreq[r].body_model_ids)[i] \notin MODELS

\* C21: a batch whose model_ids list has another length than the clamped
\* variations, or holds an unknown id, is refused as a bad request of the
\* client (HTTP 400, as an unknown model_id is), with no variation dispatched.
C21_ModelIdsValidated ==
    \A r \in Requests :
        (hpc[r] = "done" /\ IsBatch(r) /\ BadModelIds(r)) =>
            /\ Val(hresp[r]).http = "400"
            /\ Val(hresp[r]).results = <<>>

\* C27: in a batch a variation that fails with a class other than rate_limit
\* or server is recorded as failed and not attempted again: a batch of 2
\* whose first provider call fails with "auth", every later call being
\* served, completes variation 2 only (variation 1 is not served by a
\* second attempt).
C27_NoRetryOfOtherClasses ==
    \A r \in Requests :
        (/\ hpc[r] = "done"
         /\ IsBatch(r)
         /\ ClampVariations(hreq[r].variations) = 2
         /\ hreq[r].provider = "first call invalid key")
        => /\ Val(hresp[r]).http = "200"
           /\ Val(hresp[r]).total_requested = 2
           /\ Val(hresp[r]).total_completed = 1
           /\ Len(Val(hresp[r]).results) = 1

EntriesOf(image_id) == { i \in 1..Len(history) : history[i].image_id = image_id }

InProgress == { r \in Requests : hpc[r] = "single" }

\* _active_generations holds exactly the ids of the requests in progress,
\* each with the Event of its own request
RegistryExact ==
    /\ \A r \in InProgress :
          /\ Val(hreq[r].request_id) \in DOMAIN active_generations
          /\ active_generations[Val(hreq[r].request_id)] = r
    /\ \A id \in DOMAIN active_generations :
          /\ active_generations[id] \in InProgress
          /\ hreq[active_generations[id]].request_id = Some(id)

\* C40: the registry of active generations maps exactly the request ids of
\* the generate requests in progress, each to the cancellation flag of its
\* own request, whatever path a request ends on and also when two requests
\* in progress carry the same client-supplied request id; and a cancel
\* request for an id that is not in progress sets no flag and is answered
\* cancelled = false.
C40_RegistryMatchesInProgress ==
    [][/\ RegistryExact'
       /\ (hcancelled' # hcancelled
             /\ \A r \in InProgress : hreq[r].request_id # Some(hcancelled'.id))
          => (hevent' = hevent /\ hcancelled'.cancelled = "False")]_vars

----------------------------------------------------------------------------
(* The branches of a session as a forest *)

\* position in s.branches of the branch with the id given, 0 if there is none
BranchIndex(s, id) ==
    IF \E i \in 1..Len(s.branches) : s.branches[i].branch_id = id
    THEN CHOOSE i \in 1..Len(s.branches) : s.branches[i].branch_id = id
    ELSE 0

\* main is the root, every other branch names as its parent a branch that
\* was appended to s.branches before it
Forest(s) ==
    /\ s.branches # <<>>
    /\ s.branches[1].branch_id = "main"
    /\ IsNone(s.branches[1].parent_branch_id)
    /\ \A i \in 2..Len(s.branches) :
          /\ ~IsNone(s.branches[i].parent_branch_id)
          /\ BranchIndex(s, Val(s.branches[i].parent_branch_id)) \in 1..(i - 1)

\* C33: the branches of a session form a forest rooted at main: main has no
\* parent, every other branch names as parent a branch created before it
\* (so there is no cycle), in the session object and in the persisted
\* document; and when a branch is created its fork_turn_index is at least 0
\* and less than the number of turns of its parent, and its turns are the
\* parent's turns from the first to the one at fork_turn_index.
C33_BranchesFormForest ==
    /\ ~IsNone(session) => Forest(Val(session))
    /\ ~IsNone(load_session(disk)) => Forest(Val(load_session(disk)))
    /\ (last.op = "branch" /\ ~IsNone(last.pre) /\ last.ret # "ValueError") =>
          LET s == Val(session)
              new == s.branches[Len(s.branches)]
              parent == s.branches[BranchIndex(s, Val(new.parent_branch_id))]
          IN  /\ new.branch_id = last.ret
              /\ Val(new.parent_branch_id) = Val(last.pre).active_branch_id
              /\ Val(new.fork_turn_index) >= 0
              /\ Val(new.fork_turn_index) < Len(parent.turns)
              /\ new.turns = SubSeq(parent.turns, 1, Val(new.fork_turn_index) + 1)

\* C33 witness: a branch was forked from a branch that is itself a fork,
\* below the last turn of its parent
C33_Witness ==
    /\ last.op = "branch" /\ ~IsNone(last.pre) /\ last.ret # "ValueError"
    /\ Len(Val(session).branches) = 3
    /\ Val(session).branches[3].parent_branch_id = Some(Val(session).branches[2].branch_id)
    /\ Val(Val(session).branches[3].fork_turn_index) + 1 < Len(Val(session).branches[2].turns)

----------------------------------------------------------------------------
(* Properties of the request size limit of generate_image *)

\* C31: for a model that declares a request budget of B bytes, no post is
\* issued whose serialized body is longer than B: either the body posted is
\* at most B bytes long, or the call fails with a size-limit error and no
\* post is issued at all.
C31_BodyWithinBudget ==
    (~IsNone(pay_result) /\ ~IsNone(pay_limit)) =>
        LET r == Val(pay_result)
            B == Val(pay_limit)
        IN  \/ /\ r.ret = "posted"
               /\ Len(r.bodies) = 1
               /\ r.bodies[1] <= B
            \/ /\ r.ret = "OpenRouterError"
               /\ r.bodies = <<>>
               /\ Val(r.error).error_type = "server"
               /\ \/ Val(r.error) = ImageTooLarge
                  \/ LET final_size ==
                            SerializedSize(compress_payload_images(pay_payload, B).payload)
                     IN  /\ final_size > B
                         /\ Val(r.error) = PayloadTooLarge(final_size, B)

\* a payload over the budget was compressed and posted
C31_Witness ==
    /\ ~IsNone(pay_result) /\ ~IsNone(pay_limit)
    /\ SerializedSize(pay_payload) > Val(pay_limit)
    /\ Val(pay_result).ret = "posted"
    /\ Len(Val(pay_result).budgets) = 2

\* C32: the budget each image is compressed to is 90% of B divided by the
\* number k of images embedded in the payload, so that k images at their
\* budget together fit within 90% of B.
C32_BudgetSplitEvenly ==
    (~IsNone(pay_result) /\ ~IsNone(pay_limit)) =>
        \A i \in 1..Len(Val(pay_result).budgets) :
            Val(pay_result).budgets[i] * Len(pay_payload.images) <= Target(Val(pay_limit))


====
